---- MODULE Spec2Model ----
(***************************************************************************)
(* SkShaderCodeDictionary (src/src/core/SkShaderCodeDictionary.cpp): the   *)
(* paint-params key cache.  Recording threads build a key in their own     *)
(* SkPaintParamsKeyBuilder and call findOrCreate; draw paths call lookup.  *)
(* Memory is modelled explicitly: keys are byte sequences living either in *)
(* a builder's buffer or in the dictionary's arena, and the hash index and *)
(* the entries hold pointers (spans) to them.                              *)
(***************************************************************************)
EXTENDS Integers, Sequences, FiniteSets, TLC

----------------------------------------------------------------------------
(* Bounds and input sets *)

\* Cap on the number of Entries the model lets the cache grow to.
MaxEntries == 2

\* The recording threads; 0 is "no thread" (the spinlock is free).
Threads == {1, 2}
NoThread == 0

\* Key byte sequences the builders produce: they differ in length, in a
\* byte, and two of them collide under hash_fn.
KeyData == {<< >>, <<0>>, <<1>>}

\* The blend descriptors a builder can carry.
BlendInfos == {"kSrcOver", "kSrc"}

\* nullptr, and a pointer that refers to no Entry of the arena.
NULL == 0
WildPointer == -1

VARIABLES
    fArenaKeyData,  \* fArena: the key byte arrays allocated by makeEntry
    fArenaEntries,  \* fArena: the Entry objects allocated by makeEntry
    fHash,          \* SkTHashMap<SkPaintParamsKeyPtr, Entry*>
    fEntryVector,   \* std::vector<Entry*>, slot i at index i+1
    fSpinLock,      \* the thread holding the dictionary spinlock, or NoThread
    pc,             \* per thread: position inside findOrCreate
    builderData,    \* per thread: the bytes in its builder's buffer
    builderBlend,   \* per thread: the blend info its builder carries
    absentAtCall,   \* per thread: was the key absent when findOrCreate was called
    last,           \* the operation that returned last, with its result
    returned,       \* history: every (key bytes, Entry, identity) findOrCreate returned
    insertOrder     \* history: the key bytes of each miss, in insertion order

\* The snippet registry of the dictionary.
VARIABLES
    fUserDefinedCodeSnippets,  \* std::vector<std::unique_ptr<SkShaderSnippet>>
    fRuntimeEffectMap,         \* SkTHashMap<RuntimeEffectKey, int32_t>, as a set of pairs
    reg,                       \* per thread: the registration call it is in
    regLast,                   \* the registry operation that returned last
    regIssued                  \* history: (identity, descriptor) of every registration
                               \* that returned

\* getShaderInfo.
VARIABLES
    info                       \* per thread: the identity passed to getShaderInfo and
                               \* the Entry* its lookup returned

\* SkShaderInfo::toSkSL.
VARIABLES
    fBlockReaders,             \* the flattened key: the snippet identity of each block
    entryIndex,                \* the cursor shared by the whole walk (int* entryIndex)
    callStack,                 \* the emit_glue_code_for_entry calls waiting for children
    preamble,                  \* std::string preamble, as the pieces appended to it
    mainBody,                  \* std::string mainBody, as the pieces appended to it
    lastOutputVar,             \* toSkSL's lastOutputVar
    cgpc,                      \* position inside toSkSL
    emitted                    \* history: one record per emit_glue_code_for_entry call

\* The state of the Graphite promise image tests: TestCtx, the recordings
\* snapped from its Recorder and the work the Context has been given.
VARIABLES
    isVolatile,                \* Volatile isVolatile of setup_test_context
    fBackendTex,               \* TestCtx::fBackendTex: "unset", "valid" or "invalid"
    fImg,                      \* TestCtx::fImg: "unset", "held" or "null"
    fPromiseChecker,           \* TestCtx::fPromiseChecker: the three callback counters
    recorderDraws,             \* fRecorder holds draws of the image not yet snapped
    recordings,                \* the live Recordings, each using the image or not
    instantiated,              \* a fulfilled texture is attached to the image
    fCurrentCommandBuffer,     \* texture refs of the recordings inserted, not submitted
    submitted,                 \* texture refs of the work submitted, not known finished
    insertsUsing,              \* history: insertRecording calls of recordings using the image
    syncedSinceInsert,         \* history: submit(kYes) followed the last such insertion
    promiseLast,               \* history: the last operation and the callbacks it made
    testPosition               \* per test function, how far the operations follow it

\* GrQuadUtils: the last ResolveAAType call and one TessellationHelper.
VARIABLES
    aaResolved,                \* the last ResolveAAType call: its inputs and out-parameters
    fDeviceType,               \* TessellationHelper::fDeviceType, "unset" before reset()
    fOriginal,                 \* TessellationHelper::fOriginal, the device vertices
    fAAFlags,                  \* TessellationHelper::fAAFlags
    fCoverage,                 \* TessellationHelper::fCoverage, in sixteenths
    fInset,                    \* TessellationHelper::fInset
    fOutset,                   \* TessellationHelper::fOutset
    tessLast                   \* the TessellationHelper call that returned last

dictVars == <<fArenaKeyData, fArenaEntries, fHash, fEntryVector>>

\* Everything but the lock that findOrCreate and lookup read or write.
cacheVars == <<dictVars, pc, builderData, builderBlend, absentAtCall, last, returned,
               insertOrder>>

registryVars == <<fUserDefinedCodeSnippets, fRuntimeEffectMap, reg, regLast, regIssued>>

\* What findOrCreate and lookup never touch.
codegenVars == <<fBlockReaders, entryIndex, callStack, preamble, mainBody, lastOutputVar,
                 cgpc, emitted>>

promiseVars == <<isVolatile, fBackendTex, fImg, fPromiseChecker, recorderDraws, recordings,
                 instantiated, fCurrentCommandBuffer, submitted, insertsUsing,
                 syncedSinceInsert, promiseLast, testPosition>>

quadVars == <<aaResolved, fDeviceType, fOriginal, fAAFlags, fCoverage, fInset, fOutset,
             tessLast>>

outsideCache == <<registryVars, info, codegenVars, promiseVars, quadVars>>

vars == <<cacheVars, fSpinLock, registryVars, info, codegenVars, promiseVars, quadVars>>

----------------------------------------------------------------------------
(* Pointers, keys and the hash index *)

ArenaSpan(i) == [region |-> "arena", idx |-> i]
BuilderSpan(t) == [region |-> "builder", idx |-> t]

\* The bytes a key span refers to, given the arena's key arrays.
KeyBytesIn(span, arenaData) ==
    IF span.region = "arena" THEN arenaData[span.idx] ELSE builderData[span.idx]

\* The bytes a key span refers to right now.
KeyBytes(span) == KeyBytesIn(span, fArenaKeyData)

RECURSIVE SumBytes(_)
SumBytes(data) == IF data = << >> THEN 0 ELSE Head(data) + SumBytes(Tail(data))

\* SkOpts::hash_fn over the raw bytes: a function of the bytes that is not
\* injective.
hash_fn(data) == SumBytes(data) % 2

\* SkPaintParamsKeyPtr::Hash::operator(): hashes the bytes the pointer
\* refers to (p.fKey->data(), p.fKey->sizeInBytes()), never the pointer.
KeyPtrHash_OfPointer(span, arenaData) == span.idx
KeyPtrHash(span, arenaData) == hash_fn(KeyBytesIn(span, arenaData))

\* SkPaintParamsKeyPtr equality: the keys pointed to have the same bytes.
KeyPtrEq(a, b) == KeyBytes(a) = KeyBytes(b)

\* SkTHashMap::find: a slot whose stored hash and key match the probe.
HashMatches(probe) ==
    {s \in fHash : s.hash = KeyPtrHash(probe, fArenaKeyData) /\ KeyPtrEq(s.key, probe)}

HashFind(probe) ==
    IF HashMatches(probe) = {} THEN NULL
    ELSE (CHOOSE s \in HashMatches(probe) : TRUE).val

\* SkTHashMap::set: replaces the slot of an equal key, else adds one.  The
\* key may point into the array the arena has just allocated (arenaData).
HashSet(key, val, arenaData) ==
    LET hash == KeyPtrHash(key, arenaData)
        same == {s \in fHash : s.hash = hash
                                /\ KeyBytes(s.key) = KeyBytesIn(key, arenaData)}
    IN  (fHash \ same) \cup {[hash |-> hash, key |-> key, val |-> val]}

\* std::vector indexing with an unsigned index; slot i is element i+1.  An
\* index past the end reads memory that holds no Entry.
VectorSize == Len(fEntryVector)
VectorAt(i) == IF i + 1 \in DOMAIN fEntryVector THEN fEntryVector[i + 1] ELSE WildPointer

\* Entry::paintParamsKey() bytes, Entry::uniqueID() of a non-null Entry*.
EntryKeyBytes(e) == KeyBytes(fArenaEntries[e].fKey)
EntryID(e) == fArenaEntries[e].fUniqueID

\* SkUniquePaintParamsID::isValid: 0 is the invalid identity.
isValid(codeID) == codeID # 0

----------------------------------------------------------------------------
(* Snippet descriptors *)

\* Cap on the number of snippet registrations the model lets happen.
MaxSnippets == 2

\* SkUniform: a name, an SkSLType and a count; SkUniform(name, type) is
\* not an array.
NonArray == 0
SkUniform(name, type, count) == [name |-> name, type |-> type, count |-> count]

\* SkShaderSnippet
SkShaderSnippet(name, uniforms, snippetRequirementFlags, texturesAndSamplers, functionName, expressionGenerator, numChildren, dataPayloadExpectations) ==
    [fName |-> name,
     fUniforms |-> uniforms,
     fSnippetRequirementFlags |-> snippetRequirementFlags,
     fTexturesAndSamplers |-> texturesAndSamplers,
     fStaticFunctionName |-> functionName,
     fExpressionGenerator |-> expressionGenerator,
     fNumChildren |-> numChildren,
     fDataPayloadExpectations |-> dataPayloadExpectations]

\* SkShaderSnippet::needsLocalCoords
needsLocalCoords(snippet) == snippet.fSnippetRequirementFlags = "kLocalCoords"

kFourStopGradient == 4
kEightStopGradient == 8

kLinearGradientUniforms(stops) ==
    << SkUniform("localMatrix", "kFloat4x4", NonArray),
       SkUniform("colors", "kFloat4", stops),
       SkUniform("offsets", "kFloat", stops),
       SkUniform("point0", "kFloat2", NonArray),
       SkUniform("point1", "kFloat2", NonArray),
       SkUniform("tilemode", "kInt", NonArray) >>

kRadialGradientUniforms(stops) ==
    << SkUniform("localMatrix", "kFloat4x4", NonArray),
       SkUniform("colors", "kFloat4", stops),
       SkUniform("offsets", "kFloat", stops),
       SkUniform("center", "kFloat2", NonArray),
       SkUniform("radius", "kFloat", NonArray),
       SkUniform("tilemode", "kInt", NonArray) >>

kSweepGradientUniforms(stops) ==
    << SkUniform("localMatrix", "kFloat4x4", NonArray),
       SkUniform("colors", "kFloat4", stops),
       SkUniform("offsets", "kFloat", stops),
       SkUniform("center", "kFloat2", NonArray),
       SkUniform("bias", "kFloat", NonArray),
       SkUniform("scale", "kFloat", NonArray),
       SkUniform("tilemode", "kInt", NonArray) >>

kConicalGradientUniforms(stops) ==
    << SkUniform("localMatrix", "kFloat4x4", NonArray),
       SkUniform("colors", "kFloat4", stops),
       SkUniform("offsets", "kFloat", stops),
       SkUniform("point0", "kFloat2", NonArray),
       SkUniform("point1", "kFloat2", NonArray),
       SkUniform("radius0", "kFloat", NonArray),
       SkUniform("radius1", "kFloat", NonArray),
       SkUniform("tilemode", "kInt", NonArray) >>

kSolidShaderUniforms == << SkUniform("color", "kFloat4", NonArray) >>

kLocalMatrixShaderUniforms == << SkUniform("localMatrix", "kFloat4x4", NonArray) >>
kNumLocalMatrixShaderChildren == 1

kImageShaderUniforms ==
    << SkUniform("localMatrix", "kFloat4x4", NonArray),
       SkUniform("subset", "kFloat4", NonArray),
       SkUniform("tilemodeX", "kInt", NonArray),
       SkUniform("tilemodeY", "kInt", NonArray),
       SkUniform("imgWidth", "kInt", NonArray),
       SkUniform("imgHeight", "kInt", NonArray) >>

kISTexturesAndSamplers == << "sampler" >>

kBlendShaderUniforms == << SkUniform("blendMode", "kInt", NonArray) >>
kNumBlendShaderChildren == 2

kShaderBasedBlenderUniforms == << SkUniform("blendMode", "kInt", NonArray) >>

kNoChildren == 0

\* fBuiltInCodeSnippets as the constructor fills it, indexed by
\* SkBuiltInCodeSnippetID + 1.
fBuiltInCodeSnippets ==
    << SkShaderSnippet("Error", << >>, "kNone", << >>, "sk_error",
                       "GenerateDefaultGlueCode", kNoChildren, << >>),
       SkShaderSnippet("SolidColor", kSolidShaderUniforms, "kNone", << >>,
                       "sk_solid_shader", "GenerateDefaultGlueCode", kNoChildren, << >>),
       SkShaderSnippet("LinearGradient4", kLinearGradientUniforms(kFourStopGradient),
                       "kLocalCoords", << >>, "sk_linear_grad_4_shader",
                       "GenerateDefaultGlueCode", kNoChildren, << >>),
       SkShaderSnippet("LinearGradient8", kLinearGradientUniforms(kEightStopGradient),
                       "kLocalCoords", << >>, "sk_linear_grad_8_shader",
                       "GenerateDefaultGlueCode", kNoChildren, << >>),
       SkShaderSnippet("RadialGradient4", kRadialGradientUniforms(kFourStopGradient),
                       "kLocalCoords", << >>, "sk_radial_grad_4_shader",
                       "GenerateDefaultGlueCode", kNoChildren, << >>),
       SkShaderSnippet("RadialGradient8", kRadialGradientUniforms(kEightStopGradient),
                       "kLocalCoords", << >>, "sk_radial_grad_8_shader",
                       "GenerateDefaultGlueCode", kNoChildren, << >>),
       SkShaderSnippet("SweepGradient4", kSweepGradientUniforms(kFourStopGradient),
                       "kLocalCoords", << >>, "sk_sweep_grad_4_shader",
                       "GenerateDefaultGlueCode", kNoChildren, << >>),
       SkShaderSnippet("SweepGradient8", kSweepGradientUniforms(kEightStopGradient),
                       "kLocalCoords", << >>, "sk_sweep_grad_8_shader",
                       "GenerateDefaultGlueCode", kNoChildren, << >>),
       SkShaderSnippet("ConicalGradient4", kConicalGradientUniforms(kFourStopGradient),
                       "kLocalCoords", << >>, "sk_conical_grad_4_shader",
                       "GenerateDefaultGlueCode", kNoChildren, << >>),
       SkShaderSnippet("ConicalGradient8", kConicalGradientUniforms(kEightStopGradient),
                       "kLocalCoords", << >>, "sk_conical_grad_8_shader",
                       "GenerateDefaultGlueCode", kNoChildren, << >>),
       SkShaderSnippet("LocalMatrixShader", kLocalMatrixShaderUniforms, "kLocalCoords",
                       << >>, "sk_local_matrix_shader",
                       "GenerateDefaultGlueCodeWithChildren",
                       kNumLocalMatrixShaderChildren, << >>),
       SkShaderSnippet("ImageShader", kImageShaderUniforms, "kLocalCoords",
                       kISTexturesAndSamplers, "sk_compute_coords",
                       "GenerateImageShaderGlueCode", kNoChildren, << >>),
       SkShaderSnippet("BlendShader", kBlendShaderUniforms, "kNone", << >>,
                       "sk_blend_shader", "GenerateDefaultGlueCodeWithChildren",
                       kNumBlendShaderChildren, << >>),
       SkShaderSnippet("FixedFunctionBlender", << >>, "kNone", << >>, "FF-blending",
                       "GenerateFixedFunctionBlenderGlueCode", kNoChildren, << >>),
       SkShaderSnippet("ShaderBasedBlender", kShaderBasedBlenderUniforms, "kNone", << >>,
                       "sk_blend", "GenerateShaderBasedBlenderGlueCode", kNoChildren,
                       << >>) >>

\* The number of built-in snippet identities (SkBuiltInCodeSnippetID::kLast + 1).
kBuiltInCodeSnippetIDCount == Len(fBuiltInCodeSnippets)

\* SkBuiltInCodeSnippetID values used by name below.
kSolidColorShader == 1
kLinearGradientShader4 == 2
kLocalMatrixShader == 10
kImageShader == 11
kBlendShader == 12
kFixedFunctionBlender == 13
kShaderBasedBlender == 14

\* A snippet pointer that refers to no live SkShaderSnippet.
NoSnippet == [fName |-> "nullptr"]
WildSnippet == [fName |-> "wild"]

\* SkShaderCodeDictionary::getEntry(int) over a given user-defined list.
getEntryIn(codeSnippetID, userDefined) ==
    IF codeSnippetID < 0 THEN NoSnippet
    ELSE IF codeSnippetID < kBuiltInCodeSnippetIDCount
         THEN fBuiltInCodeSnippets[codeSnippetID + 1]
    ELSE LET userDefinedCodeSnippetID == codeSnippetID - kBuiltInCodeSnippetIDCount IN
         IF userDefinedCodeSnippetID < Len(userDefined)
         THEN userDefined[userDefinedCodeSnippetID + 1]
         ELSE NoSnippet

getEntry(codeSnippetID) == getEntryIn(codeSnippetID, fUserDefinedCodeSnippets)

\* SkShaderCodeDictionary::isValidID
isValidID(snippetID) ==
    IF snippetID < 0 THEN FALSE
    ELSE IF snippetID < kBuiltInCodeSnippetIDCount THEN TRUE
    ELSE snippetID - kBuiltInCodeSnippetIDCount < Len(fUserDefinedCodeSnippets)

----------------------------------------------------------------------------
(* Runtime effects *)

\* SkRuntimeEffect::Uniform
Uniform(name, type, flags, count) ==
    [name |-> name, type |-> type, flags |-> flags, count |-> count]

\* SkRuntimeEffect::Uniform::Type
UniformTypes == << "kFloat", "kFloat2", "kFloat3", "kFloat4", "kFloat2x2", "kFloat3x3",
                   "kFloat4x4", "kInt", "kInt2", "kInt3", "kInt4" >>

\* The runtime effects callers register.  EffectA has one uniform of every
\* type at full precision, some of them arrays; EffectB has one of every
\* type at half precision; EffectC has no uniform and the program hash of
\* EffectA with another uniform size.
EffectA ==
    [hash |-> 1, uniformSize |-> 64,
     uniforms |-> [i \in 1..Len(UniformTypes) |->
                     Uniform("a" \o ToString(i), UniformTypes[i],
                             IF i % 3 = 0 THEN {"kArray_Flag"} ELSE {},
                             IF i % 3 = 0 THEN i ELSE 1)]]
EffectB ==
    [hash |-> 2, uniformSize |-> 64,
     uniforms |-> [i \in 1..Len(UniformTypes) |->
                     Uniform("b" \o ToString(i), UniformTypes[i],
                             IF i % 2 = 0 THEN {"kHalfPrecision_Flag", "kArray_Flag"}
                                          ELSE {"kHalfPrecision_Flag"},
                             IF i % 2 = 0 THEN i ELSE 1)]]
EffectC == [hash |-> 1, uniformSize |-> 0, uniforms |-> << >>]

Effects == {EffectA, EffectB, EffectC}

\* A null sk_sp<SkRuntimeEffect>.
NoEffect == [null |-> TRUE]

\* uniform_type_to_sksl_type
uniform_type_to_sksl_type(u) ==
    IF "kHalfPrecision_Flag" \in u.flags
    THEN CASE u.type = "kFloat"    -> "kHalf"
           [] u.type = "kFloat2"   -> "kHalf2"
           [] u.type = "kFloat3"   -> "kHalf3"
           [] u.type = "kFloat4"   -> "kHalf4"
           [] u.type = "kFloat2x2" -> "kHalf2x2"
           [] u.type = "kFloat3x3" -> "kHalf3x3"
           [] u.type = "kFloat4x4" -> "kHalf4x4"
           [] u.type = "kInt"      -> "kShort"
           [] u.type = "kInt2"     -> "kShort2"
           [] u.type = "kInt3"     -> "kShort3"
           [] u.type = "kInt4"     -> "kShort4"
    ELSE CASE u.type = "kFloat"    -> "kFloat"
           [] u.type = "kFloat2"   -> "kFloat2"
           [] u.type = "kFloat3"   -> "kFloat3"
           [] u.type = "kFloat4"   -> "kFloat4"
           [] u.type = "kFloat2x2" -> "kFloat2x2"
           [] u.type = "kFloat3x3" -> "kFloat3x3"
           [] u.type = "kFloat4x4" -> "kFloat4x4"
           [] u.type = "kInt"      -> "kInt"
           [] u.type = "kInt2"     -> "kInt2"
           [] u.type = "kInt3"     -> "kInt3"
           [] u.type = "kInt4"     -> "kInt4"

\* convertUniforms: element `index` of the array makeInitializedArray fills.
convertUniforms_element_CountDropped(uniforms, index) ==
    IF index = 0 THEN SkUniform("localMatrix", "kFloat4x4", NonArray)
    ELSE LET u == uniforms[index] IN
         SkUniform(u.name, uniform_type_to_sksl_type(u), NonArray)
convertUniforms_element(uniforms, index) ==
    IF index = 0 THEN SkUniform("localMatrix", "kFloat4x4", NonArray)
    ELSE LET u == uniforms[index] IN
         IF "kArray_Flag" \in u.flags
         THEN SkUniform(u.name, uniform_type_to_sksl_type(u), u.count)
         ELSE SkUniform(u.name, uniform_type_to_sksl_type(u), NonArray)

\* SkShaderCodeDictionary::convertUniforms
convertUniforms(effect) ==
    LET numUniforms == Len(effect.uniforms) + 1 IN
    [i \in 1..numUniforms |-> convertUniforms_element(effect.uniforms, i - 1)]

\* RuntimeEffectKey: {SkSL program hash, uniform size}
RuntimeEffectKey(effect) == [fHash |-> effect.hash, fUniformSize |-> effect.uniformSize]

\* fRuntimeEffectMap.find(key): the stored identity, or -1 for "not found".
NotFound == -1
RuntimeEffectMapFind(key) ==
    IF \E m \in fRuntimeEffectMap : m.key = key
    THEN (CHOOSE m \in fRuntimeEffectMap : m.key = key).id
    ELSE NotFound

\* fRuntimeEffectMap.set(key, id)
RuntimeEffectMapSet(key, id) ==
    {m \in fRuntimeEffectMap : m.key # key} \cup {[key |-> key, id |-> id]}

----------------------------------------------------------------------------
(* Construction *)

\* SkShaderCodeDictionary(): "The 0th index is reserved as invalid".
ConstructedEntryVector_NoReservedSlot == << >>
ConstructedEntryVector == <<NULL>>

NoOp == [op |-> "none", t |-> NoThread, key |-> << >>, id |-> 0,
         ret |-> NULL, retID |-> 0, outcome |-> "ok", raced |-> FALSE]

\* No registration call in progress.
NoCall == [pc |-> "idle", op |-> "none", snippet |-> NoSnippet, effect |-> NoEffect,
           base |-> 0]

\* The registry operation that returned last: its identity argument or
\* result, the descriptor read or registered, the boolean returned (the
\* identity is valid), and whether it collided with another thread: a read
\* overlapped an append, or a registration returned an identity an earlier
\* registration had been given.
NoRegistryOp == [op |-> "none", t |-> NoThread, id |-> 0, ret |-> NoSnippet,
                 flag |-> FALSE, raced |-> FALSE]

\* The registry as the constructor leaves it: the built-in table filled,
\* no user-defined snippet, no runtime effect.
RegistryConstructed ==
    /\ fUserDefinedCodeSnippets = << >>
    /\ fRuntimeEffectMap = {}
    /\ reg = [t \in Threads |-> NoCall]
    /\ regLast = NoRegistryOp
    /\ regIssued = {}

\* No getShaderInfo call in progress.
NoInfo == [id |-> 0, entry |-> NULL]

\* No toSkSL call has been made.
NoCodeGenerated ==
    /\ fBlockReaders = << >>
    /\ entryIndex = 0
    /\ callStack = << >>
    /\ preamble = << >>
    /\ mainBody = << >>
    /\ lastOutputVar = ""
    /\ cgpc = "idle"
    /\ emitted = << >>

\* The operations of the promise image tests, as promiseLast and the test
\* functions name them.
Operation(name) == [name |-> name]
Setup(volatile, invalidBackendTex, dimensions) == [name |-> "setup_test_context", isVolatile |-> volatile, invalidBackendTex |-> invalidBackendTex, dimensions |-> dimensions]
Submit(syncToCpu) == [name |-> "submit", syncToCpu |-> syncToCpu]

\* The test functions of the promise image tests, in the order of their
\* definitions.
TestNames ==
    {"NonVolatileGraphitePromiseImageTest",
     "NonVolatileGraphitePromiseImageFulfillFailureTest",
     "NonVolatileGraphitePromiseImageCreationFailureTest",
     "VolatileGraphitePromiseImageTest",
     "VolatileGraphitePromiseImageFulfillFailureTest"}

\* GrQuadAAFlags as the set of its edge bits.
kNoEdges == {}
kAllEdges == {"kLeft", "kTop", "kRight", "kBottom"}

\* No ResolveAAType call has returned.
NoResolve == [requestedAAType |-> "none"]

\* Vertices whose members were never written.
Uninitialized == [fX |-> << >>, fY |-> << >>]

\* A GrQuad nothing was stored in, and the V4f of no call.
NothingWritten == [xs |-> << >>, ys |-> << >>, quadType |-> "unset"]
NoCoverage == << >>

\* No ResolveAAType call has returned and no TessellationHelper is constructed.
NoQuad ==
    /\ aaResolved = NoResolve
    /\ fDeviceType = "unset"
    /\ fOriginal = Uninitialized
    /\ fAAFlags = kNoEdges
    /\ fCoverage = NoCoverage
    /\ fInset = Uninitialized
    /\ fOutset = Uninitialized
    /\ tessLast = [op |-> "none", aaFlags |-> kNoEdges, flagsChanged |-> FALSE,
                   wasNone |-> TRUE, recomputed |-> FALSE, staleBefore |-> FALSE,
                   deviceOut |-> NothingWritten, coverage |-> NoCoverage]

\* A default-constructed TestCtx: setup_test_context has not run.
NoPromiseImage ==
    /\ isVolatile = FALSE
    /\ fBackendTex = "unset"
    /\ fImg = "unset"
    /\ fPromiseChecker = [fFulfillCount |-> 0, fImageReleaseCount |-> 0,
                          fTextureReleaseCount |-> 0]
    /\ recorderDraws = FALSE
    /\ recordings = << >>
    /\ instantiated = FALSE
    /\ fCurrentCommandBuffer = 0
    /\ submitted = 0
    /\ insertsUsing = 0
    /\ syncedSinceInsert = TRUE
    /\ promiseLast = [op |-> Operation("none"), uses |-> FALSE, fulfilled |-> 0,
                      released |-> 0]
    /\ testPosition = [test \in TestNames |-> 0]

Init ==
    /\ RegistryConstructed
    /\ NoCodeGenerated
    /\ NoPromiseImage
    /\ NoQuad
    /\ info = [t \in Threads |-> NoInfo]
    /\ fArenaKeyData = << >>
    /\ fArenaEntries = << >>
    /\ fHash = {}
    /\ fEntryVector = ConstructedEntryVector
    /\ fSpinLock = NoThread
    /\ pc = [t \in Threads |-> "idle"]
    /\ builderData = [t \in Threads |-> << >>]
    /\ builderBlend = [t \in Threads |-> "kSrcOver"]
    /\ absentAtCall = [t \in Threads |-> FALSE]
    /\ last = NoOp
    /\ returned = {}
    /\ insertOrder = << >>

\* A failed SkASSERT aborts a debug build, a dereference of a pointer to no
\* Entry ends the process: nothing runs after either.
Halted == last.outcome \in {"SkASSERT", "nullDereference", "wildDereference"}

----------------------------------------------------------------------------
(* Bookkeeping shared by the operations *)

\* Some Entry of the arena holds these bytes.
KeyPresent(data) ==
    \E e \in 1..Len(fArenaEntries) : EntryKeyBytes(e) = data

InFlight == {t \in Threads : pc[t] # "idle"}

\* SkAutoSpinlock lock{fSpinLock}: spins until no thread holds the lock.
SpinlockAcquirable_NoExclusion(t) == TRUE
SpinlockAcquirable(t) == fSpinLock = NoThread

\* ~SkAutoSpinlock on return.
SpinlockReleased_StillHeld(t) == fSpinLock
SpinlockReleased(t) == IF fSpinLock = t THEN NoThread ELSE fSpinLock

Returns(op, t, key, id, ret, retID, outcome, raced) ==
    last' = [op |-> op, t |-> t, key |-> key, id |-> id, ret |-> ret,
             retID |-> retID, outcome |-> outcome, raced |-> raced]

----------------------------------------------------------------------------
(* findOrCreate *)

\* The caller fills its builder (overwriting what the buffer held) and
\* findOrCreate locks it as a key: builder->lockAsKey().
findOrCreate_lockAsKey(t, data, blend) ==
    /\ ~Halted
    /\ pc[t] = "idle"
    /\ KeyPresent(data) \/ Len(fArenaEntries) + Cardinality(InFlight) < MaxEntries
    /\ builderData' = [builderData EXCEPT ![t] = data]
    /\ builderBlend' = [builderBlend EXCEPT ![t] = blend]
    /\ absentAtCall' = [absentAtCall EXCEPT ![t] = ~KeyPresent(data)]
    /\ pc' = [pc EXCEPT ![t] = "find"]
    /\ UNCHANGED <<dictVars, fSpinLock, last, returned, insertOrder>>
    /\ UNCHANGED outsideCache

\* SkASSERT(fEntryVector[(*existingEntry)->uniqueID().asUInt()] == *existingEntry)
HitAssertion(e) == EntryID(e) < VectorSize /\ VectorAt(EntryID(e)) = e

\* makeEntry: the span the new Entry is constructed with refers to the copy
\* of the key bytes made in the arena.
newKeyAsSpan_AliasesBuilder(key) == key
newKeyAsSpan(key) == ArenaSpan(Len(fArenaKeyData) + 1)

\* newEntry->setUniqueID(fEntryVector.size())
newUniqueID_AfterPush == VectorSize + 1
newUniqueID == VectorSize

\* fEntryVector.push_back(newEntry)
pushedEntryVector_Dropped(newEntry) == fEntryVector
pushedEntryVector(newEntry) == Append(fEntryVector, newEntry)

\* makeEntry, setUniqueID, fHash.set, fEntryVector.push_back, return newEntry.
CreateAndReturn(t) ==
    LET key == BuilderSpan(t)
        newKeyData == KeyBytes(key)
        arenaData == Append(fArenaKeyData, newKeyData)
        newEntry == Len(fArenaEntries) + 1
        entry == [fKey |-> newKeyAsSpan(key), fBlendInfo |-> builderBlend[t],
                  fUniqueID |-> newUniqueID]
    IN
    /\ fArenaKeyData' = arenaData
    /\ fArenaEntries' = Append(fArenaEntries, entry)
    /\ fHash' = HashSet(entry.fKey, newEntry, arenaData)
    /\ fEntryVector' = pushedEntryVector(newEntry)
    /\ Returns("findOrCreate_miss", t, builderData[t], 0, newEntry, entry.fUniqueID,
               "ok", FALSE)
    /\ returned' = returned \cup {[key |-> builderData[t], entry |-> newEntry,
                                   id |-> entry.fUniqueID]}
    /\ insertOrder' = Append(insertOrder, builderData[t])
    /\ pc' = [pc EXCEPT ![t] = "idle"]
    /\ absentAtCall' = [absentAtCall EXCEPT ![t] = FALSE]
    /\ UNCHANGED <<builderData, builderBlend>>
    /\ UNCHANGED outsideCache

\* A hit path without its early return: the call goes on to create an Entry.
findOrCreate_hit_FallsThrough(t) ==
    /\ ~Halted
    /\ pc[t] = "find"
    /\ SpinlockAcquirable(t)
    /\ HashFind(BuilderSpan(t)) # NULL
    /\ CreateAndReturn(t)
    /\ UNCHANGED fSpinLock

\* The hit path returns *existingEntry as it is: builder->blendInfo() is
\* read on the miss path only.
existingEntryOnHit_BlendOverwritten(t, existingEntry) == [fArenaEntries EXCEPT ![existingEntry].fBlendInfo = builderBlend[t]]
existingEntryOnHit(t, existingEntry) == fArenaEntries

\* fHash.find(SkPaintParamsKeyPtr{&key}) found an Entry: it is returned.
findOrCreate_hit(t) ==
    LET existingEntry == HashFind(BuilderSpan(t)) IN
    /\ ~Halted
    /\ pc[t] = "find"
    /\ SpinlockAcquirable(t)
    /\ existingEntry # NULL
    /\ \E outcome \in (IF HitAssertion(existingEntry) THEN {"ok"} ELSE {"ok", "SkASSERT"}) :
            Returns("findOrCreate_hit", t, builderData[t], 0, existingEntry,
                    EntryID(existingEntry), outcome, absentAtCall[t])
    /\ returned' = returned \cup {[key |-> builderData[t], entry |-> existingEntry,
                                   id |-> EntryID(existingEntry)]}
    /\ pc' = [pc EXCEPT ![t] = "idle"]
    /\ absentAtCall' = [absentAtCall EXCEPT ![t] = FALSE]
    /\ fArenaEntries' = existingEntryOnHit(t, existingEntry)
    /\ UNCHANGED <<fArenaKeyData, fHash, fEntryVector>>
    /\ UNCHANGED <<fSpinLock, builderData, builderBlend, insertOrder>>
    /\ UNCHANGED outsideCache

\* fHash.find found nothing: the thread goes on, holding the lock.
findOrCreate_miss(t) ==
    /\ ~Halted
    /\ pc[t] = "find"
    /\ SpinlockAcquirable(t)
    /\ HashFind(BuilderSpan(t)) = NULL
    /\ fSpinLock' = t
    /\ pc' = [pc EXCEPT ![t] = "insert"]
    /\ UNCHANGED <<dictVars, builderData, builderBlend, absentAtCall, last, returned,
                   insertOrder>>
    /\ UNCHANGED outsideCache

\* The miss path: the Entry is created, indexed and returned; the lock is
\* released on return.
findOrCreate_insert(t) ==
    /\ ~Halted
    /\ pc[t] = "insert"
    /\ CreateAndReturn(t)
    /\ fSpinLock' = SpinlockReleased(t)

----------------------------------------------------------------------------
(* lookup *)

\* if (!codeID.isValid()) return nullptr;  (before the lock is taken)
lookup_invalidResult_FirstEntry == IF VectorSize > 1 THEN VectorAt(1) ELSE NULL
lookup_invalidResult == NULL

lookup_invalid(t, codeID) ==
    /\ ~Halted
    /\ pc[t] = "idle"
    /\ ~isValid(codeID)
    /\ Returns("lookup", NoThread, << >>, codeID, lookup_invalidResult, 0, "ok", FALSE)
    /\ UNCHANGED <<dictVars, fSpinLock, pc, builderData, builderBlend, absentAtCall,
                   returned, insertOrder>>
    /\ UNCHANGED outsideCache

\* SkASSERT(codeID.asUInt() < fEntryVector.size())
lookup_inRange_OffByOne(codeID) == codeID <= VectorSize
lookup_inRange(codeID) == codeID < VectorSize

\* return fEntryVector[codeID.asUInt()];
lookup_element_OffByOne(codeID) == IF codeID > 1 THEN VectorAt(codeID - 1) ELSE NULL
lookup_element(codeID) == VectorAt(codeID)

lookup_valid(t, codeID) ==
    /\ ~Halted
    /\ pc[t] = "idle"
    /\ isValid(codeID)
    /\ SpinlockAcquirable(t)
    /\ lookup_inRange(codeID)
    /\ Returns("lookup", NoThread, << >>, codeID, lookup_element(codeID), 0, "ok", FALSE)
    /\ UNCHANGED <<dictVars, fSpinLock, pc, builderData, builderBlend, absentAtCall,
                   returned, insertOrder>>
    /\ UNCHANGED outsideCache

\* The identity is beyond the vector: the SkASSERT fails (a debug build
\* aborts); without assertions the vector is read out of range and the
\* value read is whatever lies there.
lookup_outOfRange(t, codeID) ==
    /\ ~Halted
    /\ pc[t] = "idle"
    /\ isValid(codeID)
    /\ SpinlockAcquirable(t)
    /\ ~lookup_inRange(codeID)
    /\ \/ Returns("lookup", NoThread, << >>, codeID, NULL, 0, "SkASSERT", FALSE)
       \/ \E garbage \in (0..Len(fArenaEntries)) \cup {WildPointer} :
             Returns("lookup", NoThread, << >>, codeID, garbage, 0, "outOfRangeRead", FALSE)
    /\ UNCHANGED <<dictVars, fSpinLock, pc, builderData, builderBlend, absentAtCall,
                   returned, insertOrder>>
    /\ UNCHANGED outsideCache

----------------------------------------------------------------------------

\* The identities callers may pass to lookup: issued ones, 0, and ones
\* beyond the end of the identity list.
CodeIDs == 0..(MaxEntries + 1)

Next ==
    \/ \E t \in Threads, data \in KeyData, blend \in BlendInfos :
            findOrCreate_lockAsKey(t, data, blend)
    \/ \E t \in Threads : findOrCreate_hit(t)
    \/ \E t \in Threads : findOrCreate_miss(t)
    \/ \E t \in Threads : findOrCreate_insert(t)
    \/ \E t \in Threads, codeID \in CodeIDs : lookup_invalid(t, codeID)
    \/ \E t \in Threads, codeID \in CodeIDs : lookup_valid(t, codeID)
    \/ \E t \in Threads, codeID \in CodeIDs : lookup_outOfRange(t, codeID)

Spec == Init /\ [][Next]_vars

----------------------------------------------------------------------------
(* Properties of the entry cache *)

\* The arena Entries that hold the given key bytes.
EntriesWith(data) == {e \in 1..Len(fArenaEntries) : EntryKeyBytes(e) = data}

\* C1: any two findOrCreate calls whose locked keys are byte-identical
\* returned the same Entry with the same identity, whatever was inserted in
\* between.
C1_SameBytesSameEntry ==
    \A r1, r2 \in returned :
        r1.key = r2.key => (r1.entry = r2.entry /\ r1.id = r2.id)

\* A key was found again after another key had been inserted after it.
C1_Witness ==
    /\ last.op = "findOrCreate_hit"
    /\ Len(insertOrder) = 2
    /\ last.key = insertOrder[1]
    /\ last.retID = 1

\* C2: keys that differ in a byte or in length never share an Entry or an
\* identity.
C2_DistinctBytesDistinctIdentity ==
    \A r1, r2 \in returned :
        r1.key # r2.key => (r1.id # r2.id /\ r1.entry # r2.entry)

\* Two keys with the same hash, differing in length, were both interned.
C2_Witness ==
    /\ << >> \in {r.key : r \in returned}
    /\ <<0>> \in {r.key : r \in returned}
    /\ hash_fn(<< >>) = hash_fn(<<0>>)

\* C3: when threads race to intern the same absent bytes, one Entry is
\* created for those bytes and every caller is handed that Entry.
C3_OneEntryPerRacedKey ==
    \A data \in KeyData :
        /\ Cardinality(EntriesWith(data)) <= 1
        /\ \A r \in returned : r.key = data => EntriesWith(data) = {r.entry}

\* A call that started while the bytes were absent found the Entry another
\* thread created meanwhile.
C3_Witness ==
    /\ last.op = "findOrCreate_hit"
    /\ last.raced
    /\ \E r \in returned : r.key = last.key /\ r.entry = last.ret

\* C4: issued identities are dense and in insertion order: with N distinct
\* keys seen they are exactly 1..N, the k-th inserted key has identity k,
\* and 0 is never issued.
C4_DenseFirstSeenIdentities ==
    LET ids == {r.id : r \in returned}
        N == Cardinality({r.key : r \in returned})
    IN  /\ ids = 1..N
        /\ 0 \notin ids
        /\ N = Len(insertOrder)
        /\ \A k \in 1..Len(insertOrder) :
              \E r \in returned : r.key = insertOrder[k] /\ r.id = k
        /\ \A r \in returned :
              r.id \in 1..Len(insertOrder) /\ insertOrder[r.id] = r.key

\* Two threads each inserted a key; the second insertion got identity 2.
C4_Witness ==
    /\ last.op = "findOrCreate_miss"
    /\ last.t = 2
    /\ last.retID = 2
    /\ pc[1] = "idle"
    /\ builderData[1] = insertOrder[1]
    /\ builderData[2] = insertOrder[2]

\* C5: lookup of an identity findOrCreate returned yields the very Entry
\* findOrCreate returned with it.
C5_LookupReturnsIssuedEntry ==
    (last.op = "lookup" /\ \E r \in returned : r.id = last.id) =>
        /\ last.outcome = "ok"
        /\ \A r \in returned : r.id = last.id => last.ret = r.entry

\* Identity 1 is looked up after a further insertion.
C5_Witness ==
    /\ last.op = "lookup"
    /\ last.id = 1
    /\ Len(fArenaEntries) = 2
    /\ last.ret = 1
    /\ \E r \in returned : r.id = 1 /\ r.entry = 1

\* A step in which some operation returned.
Returned(op) == last' # last /\ last'.op = op

\* C6: lookup of the invalid identity 0 returns nullptr in every state of
\* the dictionary and leaves the dictionary as it was.
C6_LookupInvalidIsNull ==
    /\ []((last.op = "lookup" /\ last.id = 0) =>
            (last.ret = NULL /\ last.outcome = "ok"))
    /\ [][(Returned("lookup") /\ last'.id = 0) => UNCHANGED <<dictVars, fSpinLock>>]_vars

\* lookup(0) on a dictionary that holds Entries.
C6_Witness ==
    /\ last.op = "lookup"
    /\ last.id = 0
    /\ last.ret = NULL
    /\ Len(fArenaEntries) >= 1

C8_AppendOnly ==
    [][ /\ Len(fArenaEntries') >= Len(fArenaEntries)
        /\ \A e \in 1..Len(fArenaEntries) :
              /\ fArenaEntries'[e] = fArenaEntries[e]
              /\ EntryKeyBytes(e)' = EntryKeyBytes(e)
        /\ \A s \in fHash : s \in fHash' /\ KeyBytes(s.key)' = KeyBytes(s.key)
        /\ Len(fEntryVector') >= Len(fEntryVector)
        /\ \A i \in 1..Len(fEntryVector) : fEntryVector'[i] = fEntryVector[i]
      ]_vars

\* The cache is full and operations went on after the last insertion.
C8_Witness ==
    /\ Len(fArenaEntries) = MaxEntries
    /\ Cardinality(fHash) = MaxEntries
    /\ last.op = "findOrCreate_hit"
    /\ builderData[1] # EntryKeyBytes(1)
    /\ builderData[2] # EntryKeyBytes(1)

\* C9: a findOrCreate that hits (it returns straight from the find) leaves
\* the arena, the hash index and the identity list as they were, and the
\* next identity to be issued is the same as before.
C9_HitLeavesDictionaryUnchanged ==
    [][ (\E t \in Threads : pc[t] = "find" /\ pc'[t] = "idle") =>
            /\ UNCHANGED dictVars
            /\ newUniqueID' = newUniqueID
            /\ Cardinality(fHash') = Cardinality(fHash)
      ]_vars

\* The second of two Entries was hit.
C9_Witness ==
    /\ last.op = "findOrCreate_hit"
    /\ last.retID = 2
    /\ Len(fArenaEntries) = 2
    /\ newUniqueID = 3

\* C10: the Entry and the hash index refer to the dictionary's own copy of
\* the key bytes: whatever the builders hold later, every returned Entry
\* still holds the bytes it was created for and is still found under them.
C10_EntryOwnsItsKeyBytes ==
    /\ \A e \in 1..Len(fArenaEntries) : fArenaEntries[e].fKey.region = "arena"
    /\ \A s \in fHash : s.key.region = "arena"
    /\ \A r \in returned :
          /\ EntryKeyBytes(r.entry) = r.key
          /\ \E s \in fHash :
                s.val = r.entry /\ s.hash = hash_fn(r.key) /\ KeyBytes(s.key) = r.key
    /\ (last.op = "lookup" /\ last.outcome = "ok" /\ last.ret # NULL) =>
          EntryID(last.ret) = last.id

\* Every builder was overwritten after the first Entry was created and the
\* Entry is still looked up.
C10_Witness ==
    /\ Len(fArenaEntries) >= 1
    /\ \A t \in Threads : builderData[t] # insertOrder[1]
    /\ last.op = "lookup"
    /\ last.id = 1
    /\ last.ret = 1
    /\ EntryKeyBytes(1) = insertOrder[1]

----------------------------------------------------------------------------
(* The snippet registry: addUserDefinedSnippet, addUserDefinedBlender,
   findOrCreateRuntimeEffectSnippet, getEntry, isValidID *)

\* The descriptor a client registers directly: it needs local coordinates
\* and declares no uniform.
UserSnippets ==
    { SkShaderSnippet("UserCoords", << >>, "kLocalCoords", << >>,
                      "user_coords", "GenerateDefaultGlueCode", kNoChildren, << >>) }

\* Registrations that have been called and have not returned.
RegInFlight == {t \in Threads : reg[t].pc # "idle"}

RegistrationAllowed ==
    /\ Cardinality(regIssued) + Cardinality(RegInFlight) < MaxSnippets
    /\ Len(fUserDefinedCodeSnippets) + Cardinality(RegInFlight) < MaxSnippets

\* A thread is between push_back's read of the vector's end and its write.
Appending(t) == reg[t].pc = "pushing"

RegReturns(op, t, id, ret, flag, raced) ==
    regLast' = [op |-> op, t |-> t, id |-> id, ret |-> ret, flag |-> flag,
                raced |-> raced]

\* The callers of addUserDefinedSnippet take it without any lock.
addUserDefinedSnippet_entered(t, op, snippet, effect) ==
    reg' = [reg EXCEPT ![t] = [pc |-> "push", op |-> op, snippet |-> snippet,
                               effect |-> effect, base |-> 0]]

\* addUserDefinedSnippet (8 arguments), called by a client.
addUserDefinedSnippet_call(t, snippet) ==
    /\ reg[t].pc = "idle"
    /\ RegistrationAllowed
    /\ addUserDefinedSnippet_entered(t, "addUserDefinedSnippet", snippet, NoEffect)
    /\ UNCHANGED <<fUserDefinedCodeSnippets, fRuntimeEffectMap, regLast, regIssued>>
    /\ UNCHANGED <<cacheVars, fSpinLock, info, codegenVars, promiseVars, quadVars>>

\* addUserDefinedSnippet(name, dataPayloadExpectations)
addUserDefinedSnippet2_call(t, name) ==
    /\ reg[t].pc = "idle"
    /\ RegistrationAllowed
    /\ addUserDefinedSnippet_entered(t, "addUserDefinedSnippet",
            SkShaderSnippet("UserDefined", << >>, "kNone", << >>, name,
                            "GenerateDefaultGlueCode", kNoChildren, << >>),
            NoEffect)
    /\ UNCHANGED <<fUserDefinedCodeSnippets, fRuntimeEffectMap, regLast, regIssued>>
    /\ UNCHANGED <<cacheVars, fSpinLock, info, codegenVars, promiseVars, quadVars>>

\* addUserDefinedBlender(effect): a null effect returns an invalid
\* SkBlenderID and registers nothing.
addUserDefinedBlender_call(t, effect) ==
    /\ reg[t].pc = "idle"
    /\ IF effect = NoEffect
       THEN /\ RegReturns("addUserDefinedBlender", t, 0, NoSnippet, FALSE, FALSE)
            /\ UNCHANGED reg
       ELSE /\ RegistrationAllowed
            /\ addUserDefinedSnippet_entered(t, "addUserDefinedBlender",
                    SkShaderSnippet("UserDefined", << >>, "kNone", << >>, "foo",
                                    "GenerateDefaultGlueCode", kNoChildren, << >>),
                    NoEffect)
            /\ UNCHANGED regLast
    /\ UNCHANGED <<fUserDefinedCodeSnippets, fRuntimeEffectMap, regIssued>>
    /\ UNCHANGED <<cacheVars, fSpinLock, info, codegenVars, promiseVars, quadVars>>

\* fUserDefinedCodeSnippets.push_back, first half: the vector's end is read.
push_back_begin(t) ==
    /\ reg[t].pc = "push"
    /\ reg' = [reg EXCEPT ![t].pc = "pushing",
                          ![t].base = Len(fUserDefinedCodeSnippets)]
    /\ UNCHANGED <<fUserDefinedCodeSnippets, fRuntimeEffectMap, regLast, regIssued>>
    /\ UNCHANGED <<cacheVars, fSpinLock, info, codegenVars, promiseVars, quadVars>>

\* The vectors push_back can leave behind.  When nobody appended since the
\* end was read the element is appended.  When another thread did (a data
\* race on the vector), the element either lands behind the other one or
\* is written over it at the end this thread had read.
push_back_results(vector, base, snippet) ==
    IF base = Len(vector) THEN {Append(vector, snippet)}
    ELSE {Append(vector, snippet), [vector EXCEPT ![base + 1] = snippet]}

\* push_back, second half: the element and the new end are written.
push_back_end(t) ==
    /\ reg[t].pc = "pushing"
    /\ fUserDefinedCodeSnippets' \in
            push_back_results(fUserDefinedCodeSnippets, reg[t].base, reg[t].snippet)
    /\ reg' = [reg EXCEPT ![t].pc = "size"]
    /\ UNCHANGED <<fRuntimeEffectMap, regLast, regIssued>>
    /\ UNCHANGED <<cacheVars, fSpinLock, info, codegenVars, promiseVars, quadVars>>

\* return kBuiltInCodeSnippetIDCount + fUserDefinedCodeSnippets.size() - 1
addUserDefinedSnippet_result(t) ==
    kBuiltInCodeSnippetIDCount + Len(fUserDefinedCodeSnippets) - 1

Issued(t, id) ==
    regIssued' = regIssued \cup {[op |-> reg[t].op, id |-> id,
                                   snippet |-> reg[t].snippet,
                                   effect |-> reg[t].effect]}

\* An earlier registration was given this identity.
AlreadyIssued(id) == \E r \in regIssued : r.id = id

\* addUserDefinedSnippet returns to a client (or to addUserDefinedBlender,
\* which wraps the identity in an SkBlenderID).
addUserDefinedSnippet_return(t) ==
    LET id == addUserDefinedSnippet_result(t) IN
    /\ reg[t].pc = "size"
    /\ reg[t].op # "findOrCreateRuntimeEffectSnippet"
    /\ RegReturns(reg[t].op, t, id, reg[t].snippet, TRUE, AlreadyIssued(id))
    /\ Issued(t, id)
    /\ reg' = [reg EXCEPT ![t] = NoCall]
    /\ UNCHANGED <<fUserDefinedCodeSnippets, fRuntimeEffectMap>>
    /\ UNCHANGED <<cacheVars, fSpinLock, info, codegenVars, promiseVars, quadVars>>

\* findOrCreateRuntimeEffectSnippet: the key is computed before the lock.
findOrCreateRuntimeEffectSnippet_call(t, effect) ==
    /\ reg[t].pc = "idle"
    /\ RuntimeEffectMapFind(RuntimeEffectKey(effect)) # NotFound \/ RegistrationAllowed
    /\ reg' = [reg EXCEPT ![t] = [pc |-> "find", op |-> "findOrCreateRuntimeEffectSnippet",
                                  snippet |-> NoSnippet, effect |-> effect, base |-> 0]]
    /\ UNCHANGED <<fUserDefinedCodeSnippets, fRuntimeEffectMap, regLast, regIssued>>
    /\ UNCHANGED <<cacheVars, fSpinLock, info, codegenVars, promiseVars, quadVars>>

\* fRuntimeEffectMap.find(key) found an identity: it is returned.
findOrCreateRuntimeEffectSnippet_hit(t) ==
    LET existingCodeSnippetID == RuntimeEffectMapFind(RuntimeEffectKey(reg[t].effect)) IN
    /\ reg[t].pc = "find"
    /\ SpinlockAcquirable(t)
    /\ existingCodeSnippetID # NotFound
    /\ RegReturns("findOrCreateRuntimeEffectSnippet_hit", t, existingCodeSnippetID,
                  getEntry(existingCodeSnippetID), TRUE, FALSE)
    /\ reg' = [reg EXCEPT ![t] = NoCall]
    /\ UNCHANGED <<fUserDefinedCodeSnippets, fRuntimeEffectMap, regIssued>>
    /\ UNCHANGED <<cacheVars, fSpinLock, info, codegenVars, promiseVars, quadVars>>

\* The descriptor findOrCreateRuntimeEffectSnippet passes to
\* addUserDefinedSnippet.
RuntimeEffectSnippet(effect) ==
    SkShaderSnippet("RuntimeEffect", convertUniforms(effect), "kLocalCoords", << >>,
                    "RuntimeEffect", "GenerateRuntimeShaderGlueCode", 0, << >>)

\* Nothing found: holding the lock, the thread converts the uniforms and
\* enters addUserDefinedSnippet.
findOrCreateRuntimeEffectSnippet_miss(t) ==
    /\ reg[t].pc = "find"
    /\ SpinlockAcquirable(t)
    /\ RuntimeEffectMapFind(RuntimeEffectKey(reg[t].effect)) = NotFound
    /\ fSpinLock' = t
    /\ reg' = [reg EXCEPT ![t].pc = "push",
                          ![t].snippet = RuntimeEffectSnippet(reg[t].effect)]
    /\ UNCHANGED <<fUserDefinedCodeSnippets, fRuntimeEffectMap, regLast, regIssued>>
    /\ UNCHANGED <<cacheVars, info, codegenVars, promiseVars, quadVars>>

\* addUserDefinedSnippet has returned: fRuntimeEffectMap.set(key, id), the
\* identity is returned and the lock released.
findOrCreateRuntimeEffectSnippet_return(t) ==
    LET newCodeSnippetID == addUserDefinedSnippet_result(t) IN
    /\ reg[t].pc = "size"
    /\ reg[t].op = "findOrCreateRuntimeEffectSnippet"
    /\ fRuntimeEffectMap' = RuntimeEffectMapSet(RuntimeEffectKey(reg[t].effect),
                                                newCodeSnippetID)
    /\ RegReturns(reg[t].op, t, newCodeSnippetID, reg[t].snippet, TRUE,
                  AlreadyIssued(newCodeSnippetID))
    /\ Issued(t, newCodeSnippetID)
    /\ reg' = [reg EXCEPT ![t] = NoCall]
    /\ fSpinLock' = SpinlockReleased(t)
    /\ UNCHANGED fUserDefinedCodeSnippets
    /\ UNCHANGED <<cacheVars, info, codegenVars, promiseVars, quadVars>>

\* Some other thread is in the middle of appending to the list.
OverlapsAppend(t) == \E u \in Threads \ {t} : Appending(u)

\* getEntry(codeSnippetID), also reached through dataPayloadExpectations
\* and getEntry(SkBlenderID): no lock is taken.  A read of the user-defined
\* list that overlaps a push_back may see the list before or after it, or
\* storage the vector has given up.
getEntry_results(t, codeSnippetID) ==
    IF codeSnippetID >= kBuiltInCodeSnippetIDCount /\ OverlapsAppend(t)
    THEN {getEntry(codeSnippetID), NoSnippet, WildSnippet}
    ELSE {getEntry(codeSnippetID)}

getEntry_read(t, codeSnippetID) ==
    /\ reg[t].pc = "idle"
    /\ \E ret \in getEntry_results(t, codeSnippetID) :
          RegReturns("getEntry", NoThread, codeSnippetID, ret, ret # NoSnippet,
                     codeSnippetID >= kBuiltInCodeSnippetIDCount /\ OverlapsAppend(t))
    /\ UNCHANGED <<fUserDefinedCodeSnippets, fRuntimeEffectMap, reg, regIssued>>
    /\ UNCHANGED <<cacheVars, fSpinLock, info, codegenVars, promiseVars, quadVars>>

\* isValidID(snippetID): no lock is taken; a size() read that overlaps a
\* push_back may see either size.
isValidID_results(t, snippetID) ==
    IF snippetID >= kBuiltInCodeSnippetIDCount /\ OverlapsAppend(t)
    THEN {isValidID(snippetID),
          snippetID - kBuiltInCodeSnippetIDCount < Len(fUserDefinedCodeSnippets) + 1}
    ELSE {isValidID(snippetID)}

isValidID_read(t, snippetID) ==
    /\ reg[t].pc = "idle"
    /\ \E flag \in isValidID_results(t, snippetID) :
          RegReturns("isValidID", NoThread, snippetID, NoSnippet, flag,
                     snippetID >= kBuiltInCodeSnippetIDCount /\ OverlapsAppend(t))
    /\ UNCHANGED <<fUserDefinedCodeSnippets, fRuntimeEffectMap, reg, regIssued>>
    /\ UNCHANGED <<cacheVars, fSpinLock, info, codegenVars, promiseVars, quadVars>>

\* The snippet identities readers ask about: negative, built-in,
\* user-defined, and beyond the list.
SnippetIDs == {-1, kSolidColorShader, kBuiltInCodeSnippetIDCount,
               kBuiltInCodeSnippetIDCount + 1}

UserFunctionNames == {"user_fn"}

NextRegistry ==
    \/ \E t \in Threads, snippet \in UserSnippets : addUserDefinedSnippet_call(t, snippet)
    \/ \E t \in Threads, name \in UserFunctionNames : addUserDefinedSnippet2_call(t, name)
    \/ \E t \in Threads, effect \in {NoEffect, EffectA} :
            addUserDefinedBlender_call(t, effect)
    \/ \E t \in Threads : push_back_begin(t)
    \/ \E t \in Threads : push_back_end(t)
    \/ \E t \in Threads : addUserDefinedSnippet_return(t)
    \/ \E t \in Threads, effect \in Effects : findOrCreateRuntimeEffectSnippet_call(t, effect)
    \/ \E t \in Threads : findOrCreateRuntimeEffectSnippet_hit(t)
    \/ \E t \in Threads : findOrCreateRuntimeEffectSnippet_miss(t)
    \/ \E t \in Threads : findOrCreateRuntimeEffectSnippet_return(t)
    \/ \E t \in Threads, codeSnippetID \in SnippetIDs : getEntry_read(t, codeSnippetID)
    \/ \E t \in Threads, snippetID \in SnippetIDs : isValidID_read(t, snippetID)

SpecRegistry == Init /\ [][NextRegistry]_vars

----------------------------------------------------------------------------
(* getShaderInfo, and the toSkSL call its caller makes on the result *)

\* auto entry = this->lookup(uniqueID) with an invalid identity: lookup
\* returns nullptr before it takes the lock.
getShaderInfo_lookup_invalid(t, uniqueID) ==
    /\ ~Halted
    /\ pc[t] = "idle"
    /\ ~isValid(uniqueID)
    /\ info' = [info EXCEPT ![t] = [id |-> uniqueID, entry |-> lookup_invalidResult]]
    /\ pc' = [pc EXCEPT ![t] = "toShaderInfo"]
    /\ UNCHANGED <<dictVars, fSpinLock, builderData, builderBlend, absentAtCall, last,
                   returned, insertOrder, registryVars, codegenVars, promiseVars, quadVars>>

\* lookup with a valid identity: SkAutoSpinlock lock{fSpinLock}.
getShaderInfo_lookup_lock(t, uniqueID) ==
    /\ ~Halted
    /\ pc[t] = "idle"
    /\ isValid(uniqueID)
    /\ SpinlockAcquirable(t)
    /\ fSpinLock' = t
    /\ info' = [info EXCEPT ![t] = [id |-> uniqueID, entry |-> NULL]]
    /\ pc' = [pc EXCEPT ![t] = "lookup"]
    /\ UNCHANGED <<dictVars, builderData, builderBlend, absentAtCall, last,
                   returned, insertOrder, registryVars, codegenVars, promiseVars, quadVars>>

\* The lock after lookup has returned to getShaderInfo (~SkAutoSpinlock).
lockAfterLookup_StillHeld(t) == fSpinLock
lockAfterLookup(t) == SpinlockReleased(t)

\* lookup returns fEntryVector[codeID.asUInt()] and releases the lock.  An
\* identity beyond the vector fails lookup's SkASSERT, or (without
\* assertions) reads whatever lies there.
getShaderInfo_lookup_return(t) ==
    /\ ~Halted
    /\ pc[t] = "lookup"
    /\ IF lookup_inRange(info[t].id)
       THEN /\ info' = [info EXCEPT ![t].entry = lookup_element(info[t].id)]
            /\ pc' = [pc EXCEPT ![t] = "toShaderInfo"]
            /\ UNCHANGED last
       ELSE \/ /\ Returns("getShaderInfo", NoThread, << >>, info[t].id, NULL, 0,
                          "SkASSERT", FALSE)
               /\ UNCHANGED <<info, pc>>
            \/ /\ \E garbage \in (0..Len(fArenaEntries)) \cup {WildPointer} :
                     info' = [info EXCEPT ![t].entry = garbage]
               /\ pc' = [pc EXCEPT ![t] = "toShaderInfo"]
               /\ UNCHANGED last
    /\ fSpinLock' = lockAfterLookup(t)
    /\ UNCHANGED <<dictVars, builderData, builderBlend, absentAtCall, returned,
                   insertOrder, registryVars, codegenVars, promiseVars, quadVars>>

\* entry->paintParamsKey().toShaderInfo(this, info); info->setBlendInfo(...):
\* the pointer lookup returned is dereferenced as it is.
getShaderInfo_toShaderInfo(t) ==
    LET entry == info[t].entry IN
    /\ ~Halted
    /\ pc[t] = "toShaderInfo"
    /\ IF entry = NULL
       THEN /\ Returns("getShaderInfo", NoThread, << >>, info[t].id, entry, 0,
                       "nullDereference", FALSE)
            /\ UNCHANGED <<pc, info>>
       ELSE IF entry = WildPointer
       THEN /\ Returns("getShaderInfo", NoThread, << >>, info[t].id, entry, 0,
                       "wildDereference", FALSE)
            /\ UNCHANGED <<pc, info>>
       ELSE /\ pc' = [pc EXCEPT ![t] = "toSkSL"]
            /\ info' = [info EXCEPT ![t] = NoInfo]
            /\ UNCHANGED last
    /\ UNCHANGED <<dictVars, fSpinLock, builderData, builderBlend, absentAtCall,
                   returned, insertOrder, registryVars, codegenVars, promiseVars, quadVars>>

\* SkShaderInfo::toSkSL on the decoded info: the glue-code strategies run
\* here, on the caller's thread.
toSkSL_call(t) ==
    /\ ~Halted
    /\ pc[t] = "toSkSL"
    /\ pc' = [pc EXCEPT ![t] = "idle"]
    /\ UNCHANGED <<dictVars, fSpinLock, builderData, builderBlend, absentAtCall, last,
                   returned, insertOrder, registryVars, info, codegenVars, promiseVars, quadVars>>

\* The keys interned while shader infos are being asked for.
InfoKeyData == {<<0>>, <<1>>}

NextInfo ==
    \/ \E t \in Threads, data \in InfoKeyData :
            findOrCreate_lockAsKey(t, data, "kSrcOver")
    \/ \E t \in Threads : findOrCreate_hit(t)
    \/ \E t \in Threads : findOrCreate_miss(t)
    \/ \E t \in Threads : findOrCreate_insert(t)
    \/ \E t \in Threads, uniqueID \in CodeIDs : getShaderInfo_lookup_invalid(t, uniqueID)
    \/ \E t \in Threads, uniqueID \in CodeIDs : getShaderInfo_lookup_lock(t, uniqueID)
    \/ \E t \in Threads : getShaderInfo_lookup_return(t)
    \/ \E t \in Threads : getShaderInfo_toShaderInfo(t)
    \/ \E t \in Threads : toSkSL_call(t)

SpecInfo == Init /\ [][NextInfo]_vars

----------------------------------------------------------------------------
(* Properties of the snippet registry *)

RegistrationOps == {"addUserDefinedSnippet", "addUserDefinedBlender",
                    "findOrCreateRuntimeEffectSnippet"}

\* C11: the user-defined snippet list is only appended to by a thread that
\* holds the dictionary lock, never by two threads at once, and no
\* registration returns an identity an earlier registration was given.
C11_MutationsHoldTheLock ==
    /\ \A t \in Threads : Appending(t) => fSpinLock = t
    /\ Cardinality({t \in Threads : Appending(t)}) <= 1
    /\ regLast.op \in RegistrationOps => ~regLast.raced

\* C12: no getEntry or isValidID read of the user-defined snippet list
\* happened while another thread was in the middle of appending to it.
C12_ReadersExcludeWriters ==
    regLast.op \in {"getEntry", "isValidID"} => ~regLast.raced

\* C13: every identity a registration returned is the built-in count plus
\* the position of the descriptor it registered: getEntry of the identity
\* is that descriptor, after any number of later registrations.
C13_IdentityNamesOwnDescriptor ==
    \A r \in regIssued :
        /\ r.id >= kBuiltInCodeSnippetIDCount
        /\ getEntry(r.id) = r.snippet

\* The runtime-effect descriptors in the user-defined list.
RuntimeEffectDescriptors ==
    {i \in 1..Len(fUserDefinedCodeSnippets) :
        fUserDefinedCodeSnippets[i].fName = "RuntimeEffect"}

\* findOrCreateRuntimeEffectSnippet calls that have appended their
\* descriptor and not yet recorded it in the map.
UnmappedRuntimeEffects ==
    {t \in Threads : reg[t].pc = "size" /\ reg[t].op = "findOrCreateRuntimeEffectSnippet"}

\* C14: every (program hash, uniform size) pair registered has exactly one
\* descriptor in the user-defined list and one map entry, whose identity is
\* the one its first registration returned.
C14_OneDescriptorPerEffectKey ==
    /\ Cardinality(RuntimeEffectDescriptors) =
            Cardinality(fRuntimeEffectMap) + Cardinality(UnmappedRuntimeEffects)
    /\ \A m \in fRuntimeEffectMap :
            \E r \in regIssued : r.id = m.id /\ RuntimeEffectKey(r.effect) = m.key
    /\ \A m1, m2 \in fRuntimeEffectMap : m1.key = m2.key => m1 = m2

\* The SkSLType a runtime-effect uniform type is declared with.
FullPrecisionType ==
    [kFloat |-> "kFloat", kFloat2 |-> "kFloat2", kFloat3 |-> "kFloat3",
     kFloat4 |-> "kFloat4", kFloat2x2 |-> "kFloat2x2", kFloat3x3 |-> "kFloat3x3",
     kFloat4x4 |-> "kFloat4x4", kInt |-> "kInt", kInt2 |-> "kInt2", kInt3 |-> "kInt3",
     kInt4 |-> "kInt4"]
HalfPrecisionType ==
    [kFloat |-> "kHalf", kFloat2 |-> "kHalf2", kFloat3 |-> "kHalf3",
     kFloat4 |-> "kHalf4", kFloat2x2 |-> "kHalf2x2", kFloat3x3 |-> "kHalf3x3",
     kFloat4x4 |-> "kHalf4x4", kInt |-> "kShort", kInt2 |-> "kShort2",
     kInt3 |-> "kShort3", kInt4 |-> "kShort4"]

\* The registrations findOrCreateRuntimeEffectSnippet made.
RuntimeEffectRegistrations ==
    {r \in regIssued : r.op = "findOrCreateRuntimeEffectSnippet"}

\* C15: the descriptor synthesized for a runtime effect with n uniforms has
\* n+1 uniforms: a float4x4 localMatrix, then the effect's uniforms in
\* order with their names, their types (half-precision ones under the
\* half-precision flag) and, for arrays, their counts; it needs local
\* coordinates and has no children.
C15_SynthesizedDescriptor ==
    \A r \in RuntimeEffectRegistrations :
        LET us == r.effect.uniforms
            n == Len(us)
            ds == r.snippet.fUniforms
        IN
        /\ Len(ds) = n + 1
        /\ ds[1] = [name |-> "localMatrix", type |-> "kFloat4x4", count |-> NonArray]
        /\ \A i \in 1..n :
            /\ ds[i + 1].name = us[i].name
            /\ ds[i + 1].type = IF "kHalfPrecision_Flag" \in us[i].flags
                                THEN HalfPrecisionType[us[i].type]
                                ELSE FullPrecisionType[us[i].type]
            /\ ds[i + 1].count = IF "kArray_Flag" \in us[i].flags
                                 THEN us[i].count ELSE NonArray
        /\ needsLocalCoords(r.snippet)
        /\ r.snippet.fNumChildren = 0

\* The descriptors of a full-precision effect with arrays and of a
\* half-precision effect with arrays have both been synthesized.
C15_Witness ==
    /\ \E r \in RuntimeEffectRegistrations : r.effect = EffectA
    /\ \E r \in RuntimeEffectRegistrations : r.effect = EffectB

\* pre_local_matrix_for_entry: SkASSERT(entry->fUniforms.size() > 0) and
\* SkASSERT(entry->fUniforms.front().type() == SkSLType::kFloat4x4)
TransformAssertion(snippet) ==
    /\ Len(snippet.fUniforms) > 0
    /\ snippet.fUniforms[1].type = "kFloat4x4"

\* C16: every registered descriptor, built-in or user-defined, that needs
\* local coordinates has a float4x4 as its first uniform.
C16_LocalCoordsLeadWithMatrix ==
    /\ \A i \in 1..Len(fBuiltInCodeSnippets) :
            needsLocalCoords(fBuiltInCodeSnippets[i])
                => TransformAssertion(fBuiltInCodeSnippets[i])
    /\ \A i \in 1..Len(fUserDefinedCodeSnippets) :
            needsLocalCoords(fUserDefinedCodeSnippets[i])
                => TransformAssertion(fUserDefinedCodeSnippets[i])

----------------------------------------------------------------------------
(* Properties of getShaderInfo *)

\* C17: a thread that is decoding a key (toShaderInfo) or generating code
\* (toSkSL) does not hold the dictionary lock; a thread inside findOrCreate
\* that has locked its builder's key and not yet searched the index does
\* not hold it either; the lock is only held between lookup's or
\* findOrCreate's acquisition and their return.
C17_NoLockWhileDecoding ==
    \A t \in Threads :
        /\ pc[t] \in {"toShaderInfo", "toSkSL"} => fSpinLock # t
        /\ pc[t] = "find" => fSpinLock # t
        /\ fSpinLock = t => pc[t] \in {"insert", "lookup"}

\* One thread generates code from the info getShaderInfo decoded while the
\* other is inside findOrCreate's critical section.
C17_Witness ==
    \E t, u \in Threads :
        /\ t # u
        /\ pc[t] = "toSkSL"
        /\ pc[u] = "insert"
        /\ fSpinLock = u

\* C18: getShaderInfo called with the invalid identity 0, or with an
\* identity that was never issued, neither dereferences the absent lookup
\* result nor fails an assertion.
C18_InvalidIdentityIsNothingToDraw ==
    (last.op = "getShaderInfo" /\ (last.id = 0 \/ last.id >= VectorSize))
        => last.outcome \notin {"nullDereference", "wildDereference", "SkASSERT"}

----------------------------------------------------------------------------
(* SkShaderInfo::toSkSL and the glue-code strategies (a build with
   SK_GRAPHITE_ENABLED, SK_METAL and SK_ENABLE_SKSL) *)

\* Cap on the number of blocks of a key.
MaxBlocks == 4

\* The built-in snippets keys are made of.
KeySnippetIDs == {kSolidColorShader, kLinearGradientShader4, kLocalMatrixShader,
                  kImageShader, kBlendShader, kFixedFunctionBlender, kShaderBasedBlender}

\* The total size of n consecutive subtrees of a key starting at position p
\* (1-based); more than the key holds when one of them runs off its end.
RECURSIVE SubtreesSize(_, _, _)
SubtreesSize(key, p, n) ==
    IF n = 0 THEN 0
    ELSE IF p > Len(key) THEN Len(key) + 1
    ELSE LET first == 1 + SubtreesSize(key, p + 1,
                                       fBuiltInCodeSnippets[key[p] + 1].fNumChildren)
         IN  first + SubtreesSize(key, p + first, n - 1)

\* A key the builder can produce: every block is followed by exactly the
\* subtrees of its descriptor's children.
WellFormed(key) == \E n \in 0..Len(key) : SubtreesSize(key, 1, n) = Len(key)

Keys ==
    UNION {{key \in [1..n -> KeySnippetIDs] : WellFormed(key)} : n \in 0..MaxBlocks}

\* get_mangled_name
get_mangled_name_Unmangled(baseName, manglingSuffix) == baseName
get_mangled_name(baseName, manglingSuffix) == baseName \o "_" \o ToString(manglingSuffix)

\* SkShaderSnippet::getMangledUniformName
getMangledUniformName(snippet, uniformIndex, mangleId) ==
    snippet.fUniforms[uniformIndex + 1].name \o "_" \o ToString(mangleId)

\* add_indent: 4*indent spaces.
RECURSIVE add_indent(_)
add_indent(indent) == IF indent = 0 THEN "" ELSE "    " \o add_indent(indent - 1)

\* shaderInfo.blockReader(i).entry()
readerEntry(i) == fBuiltInCodeSnippets[fBlockReaders[i + 1] + 1]

\* pre_local_matrix_for_entry
pre_local_matrix_for_entry_ParentOnly(entry, curEntryIndex, parentMatrix) == parentMatrix
pre_local_matrix_for_entry(entry, curEntryIndex, parentMatrix) ==
    IF ~needsLocalCoords(entry) THEN parentMatrix
    ELSE "(" \o parentMatrix \o " * " \o getMangledUniformName(entry, 0, curEntryIndex)
         \o ")"

\* The loops of append_default_snippet_arguments: separator, then argument.
RECURSIVE JoinArguments(_)
JoinArguments(args) ==
    IF args = << >> THEN ""
    ELSE IF Len(args) = 1 THEN args[1]
    ELSE args[1] \o ", " \o JoinArguments(Tail(args))

\* append_default_snippet_arguments
append_default_snippet_arguments_ChildrenDropped(entry, curEntryIndex, currentPreLocalName, childOutputs) ==
    "(" \o JoinArguments([i \in 1..Len(entry.fUniforms) |->
                             IF i = 1 /\ needsLocalCoords(entry)
                             THEN currentPreLocalName \o " * dev2LocalUni"
                             ELSE getMangledUniformName(entry, i - 1, curEntryIndex)]) \o ")"
append_default_snippet_arguments(entry, curEntryIndex, currentPreLocalName, childOutputs) ==
    LET uniformArguments ==
            [i \in 1..Len(entry.fUniforms) |->
                IF i = 1 /\ needsLocalCoords(entry)
                THEN currentPreLocalName \o " * dev2LocalUni"
                ELSE getMangledUniformName(entry, i - 1, curEntryIndex)]
    IN  "(" \o JoinArguments(uniformArguments \o childOutputs) \o ")"

\* GenerateDefaultGlueCode
GenerateDefaultGlueCode_NoArguments(entry, curEntryIndex, priorStageOutputName, currentPreLocalName) ==
    entry.fStaticFunctionName \o "()"
GenerateDefaultGlueCode(entry, curEntryIndex, priorStageOutputName, currentPreLocalName) ==
    entry.fStaticFunctionName
        \o append_default_snippet_arguments(entry, curEntryIndex, currentPreLocalName, << >>)

\* GenerateImageShaderGlueCode
GenerateImageShaderGlueCode(entry, curEntryIndex, priorStageOutputName, currentPreLocalName) ==
    LET samplerVarName == "sampler_" \o ToString(curEntryIndex) \o "_0" IN
    "sample(" \o samplerVarName \o ", " \o entry.fStaticFunctionName \o "("
        \o currentPreLocalName \o " * dev2LocalUni, "
        \o getMangledUniformName(entry, 1, curEntryIndex) \o ", "
        \o getMangledUniformName(entry, 2, curEntryIndex) \o ", "
        \o getMangledUniformName(entry, 3, curEntryIndex) \o ", "
        \o getMangledUniformName(entry, 4, curEntryIndex) \o ", "
        \o getMangledUniformName(entry, 5, curEntryIndex) \o "))"

\* GenerateFixedFunctionBlenderGlueCode
GenerateFixedFunctionBlenderGlueCode_Opaque(entry, curEntryIndex, priorStageOutputName, currentPreLocalName) ==
    "half4(1)"
GenerateFixedFunctionBlenderGlueCode(entry, curEntryIndex, priorStageOutputName, currentPreLocalName) ==
    priorStageOutputName

\* GenerateShaderBasedBlenderGlueCode
GenerateShaderBasedBlenderGlueCode(entry, curEntryIndex, priorStageOutputName, currentPreLocalName) ==
    entry.fStaticFunctionName \o "(" \o getMangledUniformName(entry, 0, curEntryIndex)
        \o ", " \o priorStageOutputName \o ", half4(1))"

\* (reader.entry()->fExpressionGenerator)(...) for the strategies that emit
\* no children.
fExpressionGenerator(entry, curEntryIndex, priorStageOutputName, currentPreLocalName) ==
    CASE entry.fExpressionGenerator = "GenerateDefaultGlueCode" ->
            GenerateDefaultGlueCode(entry, curEntryIndex, priorStageOutputName,
                                    currentPreLocalName)
      [] entry.fExpressionGenerator = "GenerateImageShaderGlueCode" ->
            GenerateImageShaderGlueCode(entry, curEntryIndex, priorStageOutputName,
                                        currentPreLocalName)
      [] entry.fExpressionGenerator = "GenerateFixedFunctionBlenderGlueCode" ->
            GenerateFixedFunctionBlenderGlueCode(entry, curEntryIndex,
                                                 priorStageOutputName, currentPreLocalName)
      [] entry.fExpressionGenerator = "GenerateShaderBasedBlenderGlueCode" ->
            GenerateShaderBasedBlenderGlueCode(entry, curEntryIndex,
                                               priorStageOutputName, currentPreLocalName)

EmitsChildren(entry) == entry.fExpressionGenerator = "GenerateDefaultGlueCodeWithChildren"

\* emit_glue_code_for_entry, else branch: "Inherit the parent matrix; reuse
\* the same variable instead of introducing a new one."
inheritedPreLocalName_Fresh(parentPreLocalName, curEntryIndex) ==
    get_mangled_name("preLocal", curEntryIndex)
inheritedPreLocalName(parentPreLocalName, curEntryIndex) == parentPreLocalName

\* emit_glue_code_for_entry: currentPreLocalName
currentPreLocalNameOf(entry, curEntryIndex, parentPreLocalName) ==
    IF needsLocalCoords(entry) THEN get_mangled_name("preLocal", curEntryIndex)
    ELSE inheritedPreLocalName(parentPreLocalName, curEntryIndex)

\* emit_glue_code_for_entry: scopeOutputVar
scopeOutputVarOf(curEntryIndex) == get_mangled_name("outColor", curEntryIndex)

\* emit_glue_code_for_entry, up to the call of the strategy: the pieces
\* appended to *mainBody.
GluePrologue(entry, curEntryIndex, parentPreLocalName, indent) ==
    << add_indent(indent) \o "half4 " \o scopeOutputVarOf(curEntryIndex)
            \o "; // output of " \o entry.fName \o "\n",
       add_indent(indent) \o "{\n" >>
    \o (IF needsLocalCoords(entry)
        THEN << add_indent(indent + 1) \o "float4x4 "
                    \o currentPreLocalNameOf(entry, curEntryIndex, parentPreLocalName)
                    \o " = "
                    \o pre_local_matrix_for_entry(entry, curEntryIndex, parentPreLocalName)
                    \o ";\n" >>
        ELSE << >>)

\* emit_glue_code_for_entry, after the strategy has returned expr.
GlueEpilogue(scopeOutputVar, expr, indent) ==
    << add_indent(indent + 1) \o scopeOutputVar \o " = " \o expr \o ";\n",
       add_indent(indent) \o "}\n" >>

\* Whose code the walk is emitting: toSkSL's loop (no frame) or the helper
\* function of the innermost block with children.
TopLevel == callStack = << >>
Frame == callStack[Len(callStack)]

\* The arguments of the next emit_glue_code_for_entry call: toSkSL passes
\* lastOutputVar, parentPreLocal and its mainBody at indent 1;
\* emit_child_glue_code advances the cursor and passes on what
\* GenerateDefaultGlueCodeWithChildren gave it.
\* emit_child_glue_code: "*entryIndex += 1" before each child.
emit_child_glue_code_advance_Stays(cursor) == cursor
emit_child_glue_code_advance(cursor) == cursor + 1

\* emit_child_glue_code: the priorStageOutputName passed to each child is
\* the one the function was given, whatever the children before it returned.
emit_child_glue_code_prior_Chained(priorStageOutputName, childOutputVarNames) ==
    IF childOutputVarNames = << >> THEN priorStageOutputName
    ELSE childOutputVarNames[Len(childOutputVarNames)]
emit_child_glue_code_prior(priorStageOutputName, childOutputVarNames) == priorStageOutputName

\* toSkSL: "++entryIndex" of the loop over fBlockReaders.
toSkSL_loopIncrement_Stays(cursor) == cursor
toSkSL_loopIncrement(cursor) == cursor + 1

nextEntryIndex == IF TopLevel THEN entryIndex ELSE emit_child_glue_code_advance(entryIndex)
nextPriorStageOutputName ==
    IF TopLevel THEN lastOutputVar
    ELSE emit_child_glue_code_prior(Frame.childPrior, Frame.childOutputs)
nextParentPreLocalName == IF TopLevel THEN "initialPreLocal" ELSE Frame.childPreLocal
nextIndent == IF TopLevel THEN 1 ELSE 0
nextParent == IF TopLevel THEN -1 ELSE Frame.idx

\* The loop conditions of toSkSL (entryIndex < fBlockReaders.size()) and of
\* emit_child_glue_code (j < numChildren).
MoreToEmit ==
    IF TopLevel THEN entryIndex < Len(fBlockReaders)
    ELSE Len(Frame.childOutputs) < readerEntry(Frame.idx).fNumChildren

\* The record kept of an emit_glue_code_for_entry call.
EmittedBlock(entry, expr, open, ownPreLocal) ==
    [pos |-> nextEntryIndex,
     snippet |-> fBlockReaders[nextEntryIndex + 1],
     parent |-> nextParent,
     outVar |-> scopeOutputVarOf(nextEntryIndex),
     prior |-> nextPriorStageOutputName,
     parentPreLocal |-> nextParentPreLocalName,
     currentPreLocal |-> currentPreLocalNameOf(entry, nextEntryIndex,
                                               nextParentPreLocalName),
     declared |-> Len(GluePrologue(entry, nextEntryIndex, nextParentPreLocalName,
                                   nextIndent)) > 2,
     uniforms |-> [i \in 1..Len(entry.fUniforms) |->
                      getMangledUniformName(entry, i - 1, nextEntryIndex)],
     expr |-> expr,
     open |-> open,
     ownPreLocal |-> ownPreLocal,
     cursorAtReturn |-> IF open THEN -1 ELSE nextEntryIndex]

\* emit_glue_code_for_entry returns scopeOutputVar to its caller: toSkSL
\* assigns it to lastOutputVar and increments the cursor, emit_child_glue_code
\* pushes it onto childOutputVarNames.
ReturnsOutputVar(stack, pieces, scopeOutputVar, cursor) ==
    IF stack = << >>
    THEN /\ mainBody' = mainBody \o pieces
         /\ callStack' = << >>
         /\ lastOutputVar' = scopeOutputVar
         /\ entryIndex' = toSkSL_loopIncrement(cursor)
    ELSE /\ callStack' = [stack EXCEPT ![Len(stack)].helperFn = @ \o pieces,
                                       ![Len(stack)].childOutputs =
                                            Append(@, scopeOutputVar)]
         /\ entryIndex' = cursor
         /\ UNCHANGED <<mainBody, lastOutputVar>>

NotCodegen == <<cacheVars, fSpinLock, registryVars, info, promiseVars, quadVars>>

\* toSkSL up to its loop.
toSkSL_begin ==
    /\ cgpc = "idle"
    /\ \E key \in Keys : fBlockReaders' = key
    /\ preamble' = << <<"layout(location = 0, index = 0) out half4 sk_FragColor;\n">>,
                      <<"GetMtlUniforms(2, FS)">>,
                      <<"GetMtlTexturesAndSamplers">> >>
    /\ mainBody' = << "void main() {\n    const float4x4 initialPreLocal = float4x4(1.0);\n",
                      add_indent(1),
                      "    half4 initialColor = half4(0);" >>
    /\ lastOutputVar' = "initialColor"
    /\ entryIndex' = 0
    /\ callStack' = << >>
    /\ emitted' = << >>
    /\ cgpc' = "loop"
    /\ UNCHANGED NotCodegen

\* emit_glue_code_for_entry for a block whose strategy emits no children:
\* the whole call.
emit_glue_code_for_entry(curEntryIndex) ==
    LET entry == readerEntry(curEntryIndex)
        currentPreLocalName ==
            currentPreLocalNameOf(entry, curEntryIndex, nextParentPreLocalName)
        expr == fExpressionGenerator(entry, curEntryIndex, nextPriorStageOutputName,
                                     currentPreLocalName)
    IN
    /\ cgpc = "loop"
    /\ MoreToEmit
    /\ curEntryIndex = nextEntryIndex
    /\ ~EmitsChildren(entry)
    /\ emitted' = Append(emitted, EmittedBlock(entry, expr, FALSE, currentPreLocalName))
    /\ ReturnsOutputVar(callStack,
                        GluePrologue(entry, curEntryIndex, nextParentPreLocalName,
                                     nextIndent)
                            \o GlueEpilogue(scopeOutputVarOf(curEntryIndex), expr,
                                            nextIndent),
                        scopeOutputVarOf(curEntryIndex), curEntryIndex)
    /\ UNCHANGED <<fBlockReaders, preamble, cgpc>>
    /\ UNCHANGED NotCodegen

\* emit_glue_code_for_entry for a block with GenerateDefaultGlueCodeWithChildren,
\* up to the call of emit_child_glue_code: the helper function is begun and
\* its children are emitted into it with "inColor" and "preLocal".
GenerateDefaultGlueCodeWithChildren_enter(curEntryIndex) ==
    LET entry == readerEntry(curEntryIndex)
        helperFnName == get_mangled_name(entry.fStaticFunctionName, curEntryIndex)
        pieces == GluePrologue(entry, curEntryIndex, nextParentPreLocalName, nextIndent)
        frame == [event |-> Len(emitted) + 1,
                  idx |-> curEntryIndex,
                  indent |-> nextIndent,
                  outVar |-> scopeOutputVarOf(curEntryIndex),
                  prior |-> nextPriorStageOutputName,
                  currentPreLocal |->
                      currentPreLocalNameOf(entry, curEntryIndex, nextParentPreLocalName),
                  helperFnName |-> helperFnName,
                  helperFn |-> << "half4 " \o helperFnName
                                      \o "(half4 inColor, float4x4 preLocal) {" >>,
                  childPrior |-> "inColor",
                  childPreLocal |-> "preLocal",
                  childOutputs |-> << >>]
    IN
    /\ cgpc = "loop"
    /\ MoreToEmit
    /\ curEntryIndex = nextEntryIndex
    /\ EmitsChildren(entry)
    /\ emitted' = Append(emitted, EmittedBlock(entry, "", TRUE, ""))
    /\ IF TopLevel
       THEN /\ mainBody' = mainBody \o pieces
            /\ callStack' = << frame >>
       ELSE /\ callStack' = Append([callStack EXCEPT ![Len(callStack)].helperFn =
                                                            @ \o pieces], frame)
            /\ UNCHANGED mainBody
    /\ entryIndex' = curEntryIndex
    /\ UNCHANGED <<fBlockReaders, preamble, lastOutputVar, cgpc>>
    /\ UNCHANGED NotCodegen

\* GenerateDefaultGlueCodeWithChildren: "*preamble += helperFn", the helper
\* function goes to the bottom of the preamble.
preambleWithHelper_OnTop(text, helperFn) == <<helperFn>> \o text
preambleWithHelper(text, helperFn) == Append(text, helperFn)

\* emit_child_glue_code has returned: the helper function is finished and
\* appended to the preamble, the call of the helper is the block's
\* expression, and emit_glue_code_for_entry returns.
GenerateDefaultGlueCodeWithChildren_return ==
    LET entry == readerEntry(Frame.idx)
        helperFn == Frame.helperFn
                    \o << "    return " \o entry.fStaticFunctionName,
                          append_default_snippet_arguments(entry, Frame.idx, "preLocal",
                                                           Frame.childOutputs),
                          ";\n}\n" >>
        expr == Frame.helperFnName \o "(" \o Frame.prior \o ", " \o Frame.currentPreLocal
                \o ")"
    IN
    /\ cgpc = "loop"
    /\ ~TopLevel
    /\ ~MoreToEmit
    /\ preamble' = preambleWithHelper(preamble, helperFn)
    /\ emitted' = [emitted EXCEPT ![Frame.event].expr = expr,
                                  ![Frame.event].open = FALSE,
                                  ![Frame.event].ownPreLocal = "preLocal",
                                  ![Frame.event].cursorAtReturn = entryIndex]
    /\ ReturnsOutputVar(SubSeq(callStack, 1, Len(callStack) - 1),
                        GlueEpilogue(Frame.outVar, expr, Frame.indent),
                        Frame.outVar, entryIndex)
    /\ UNCHANGED <<fBlockReaders, cgpc>>
    /\ UNCHANGED NotCodegen

\* toSkSL after its loop: sk_FragColor is assigned and preamble + "\n" +
\* mainBody returned.
toSkSL_end ==
    /\ cgpc = "loop"
    /\ TopLevel
    /\ ~MoreToEmit
    /\ mainBody' = mainBody \o << "    sk_FragColor = " \o lastOutputVar \o ";\n", "}\n" >>
    /\ cgpc' = "done"
    /\ UNCHANGED <<fBlockReaders, entryIndex, callStack, preamble, lastOutputVar, emitted>>
    /\ UNCHANGED NotCodegen

NextCodegen ==
    \/ toSkSL_begin
    \/ \E curEntryIndex \in 0..(MaxBlocks + 1) : emit_glue_code_for_entry(curEntryIndex)
    \/ \E curEntryIndex \in 0..(MaxBlocks + 1) :
            GenerateDefaultGlueCodeWithChildren_enter(curEntryIndex)
    \/ GenerateDefaultGlueCodeWithChildren_return
    \/ toSkSL_end

SpecCodegen == Init /\ [][NextCodegen]_vars

----------------------------------------------------------------------------
(* Properties of the generated code *)

\* The names a sequence holds.
Range(seq) == {seq[i] : i \in DOMAIN seq}

\* The record of the block emitted at a position.
EmittedAt(pos) == CHOOSE e \in Range(emitted) : e.pos = pos

\* C19: the output variables of the blocks emitted so far are pairwise
\* distinct, and no mangled uniform name of one block position is a mangled
\* uniform name of another.
C19_DistinctNames ==
    \A i, j \in DOMAIN emitted :
        i # j => /\ emitted[i].outVar # emitted[j].outVar
                 /\ Range(emitted[i].uniforms) \cap Range(emitted[j].uniforms) = {}

\* Code was generated for a key with two sibling SolidColor blocks.
C19_Witness ==
    /\ cgpc = "done"
    /\ \E i, j \in DOMAIN emitted :
        /\ i # j
        /\ emitted[i].snippet = kSolidColorShader
        /\ emitted[j].snippet = kSolidColorShader
        /\ emitted[i].parent = emitted[j].parent
        /\ emitted[i].parent # -1

SubtreeSizeAt(key, pos) == SubtreesSize(key, pos + 1, 1)

\* The position of the block whose child the block at pos is in a key read
\* in pre-order, -1 for a top-level block.
ParentOf(key, pos) ==
    LET ancestors == {p \in 0..(pos - 1) : pos < p + SubtreeSizeAt(key, p)}
    IN  IF ancestors = {} THEN -1
        ELSE CHOOSE p \in ancestors : \A q \in ancestors : q <= p

\* The top-level positions of a key.
TopLevelPositions(key) == {p \in 0..(Len(key) - 1) : ParentOf(key, p) = -1}

\* What sk_FragColor is to be assigned: the output variable of the last
\* top-level block, or the initial color of toSkSL for the empty key.
LastTopLevelOutput(key) ==
    IF key = << >> THEN "initialColor"
    ELSE "outColor_" \o ToString(CHOOSE p \in TopLevelPositions(key) :
                                    \A q \in TopLevelPositions(key) : q <= p)

\* C21: toSkSL emits glue code for the positions 0, 1, 2, ... of the block
\* readers in this order, once each, every block under the parent the
\* pre-order reading of the key gives it; a top-level call returns with the
\* cursor on the last position of its subtree, so that the loop goes on with
\* the position after the subtree; when toSkSL is done every position has
\* been emitted and sk_FragColor is assigned the output variable of the last
\* top-level block (initialColor for the empty key).
C21_PreOrderWalk ==
    /\ Len(emitted) <= Len(fBlockReaders)
    /\ \A i \in DOMAIN emitted :
        /\ emitted[i].pos = i - 1
        /\ emitted[i].snippet = fBlockReaders[i]
        /\ emitted[i].parent = ParentOf(fBlockReaders, i - 1)
        /\ (emitted[i].parent = -1 /\ ~emitted[i].open)
            => emitted[i].cursorAtReturn
                    = emitted[i].pos + SubtreeSizeAt(fBlockReaders, emitted[i].pos) - 1
    /\ (cgpc = "loop" /\ TopLevel)
        => /\ entryIndex = Len(emitted)
           /\ entryIndex = Len(fBlockReaders) \/ entryIndex \in TopLevelPositions(fBlockReaders)
    /\ cgpc = "done"
        => /\ Len(emitted) = Len(fBlockReaders)
           /\ mainBody[Len(mainBody) - 1]
                = "    sk_FragColor = " \o LastTopLevelOutput(fBlockReaders) \o ";\n"
           /\ mainBody[Len(mainBody)] = "}\n"

\* Code was generated for a LocalMatrixShader wrapping a LocalMatrixShader
\* wrapping a SolidColor, followed by a top-level FixedFunctionBlender.
C21_Witness ==
    /\ cgpc = "done"
    /\ fBlockReaders = <<kLocalMatrixShader, kLocalMatrixShader, kSolidColorShader,
                         kFixedFunctionBlender>>
    /\ Len(emitted) = 4
    /\ emitted[3].parent = 1
    /\ emitted[4].parent = -1
    /\ mainBody[Len(mainBody) - 1] = "    sk_FragColor = outColor_3;\n"

\* The descriptor of an emitted block.
SnippetOf(e) == fBuiltInCodeSnippets[e.snippet + 1]

\* The positions of the children emitted for the block at position pos, in
\* increasing order.
ChildrenOf(pos) ==
    LET kids == {e.pos : e \in {c \in Range(emitted) : c.parent = pos}}
    IN  [j \in 1..Cardinality(kids) |->
            CHOOSE c \in kids : Cardinality({d \in kids : d < c}) = j - 1]

\* Where a piece of text occurs in a piece-wise string.
Occurrences(pieces, piece) == {j \in DOMAIN pieces : pieces[j] = piece}

\* The statement assigning an emitted block's expression to its output
\* variable, as it stands in a helper function (indent 0).
AssignmentInHelper(e) == "    outColor_" \o ToString(e.pos) \o " = " \o e.expr \o ";\n"

\* The arguments a helper function passes for the uniforms of its block:
\* the mangled uniform names in declared order, the first one replaced by
\* the helper's transform parameter times dev2LocalUni for a block that
\* needs local coordinates.
HelperUniformArguments(e) ==
    [u \in 1..Len(SnippetOf(e).fUniforms) |->
        IF u = 1 /\ needsLocalCoords(SnippetOf(e))
        THEN "preLocal * dev2LocalUni"
        ELSE SnippetOf(e).fUniforms[u].name \o "_" \o ToString(e.pos)]

EmitsFixedFunctionBlender ==
    /\ Len(emitted') = Len(emitted) + 1
    /\ emitted'[Len(emitted')].snippet = kFixedFunctionBlender

\* The text the walk appended last but one to the code it is emitting into:
\* toSkSL's mainBody or the helper function of the innermost open block.
LastAssignment ==
    IF TopLevel THEN mainBody[Len(mainBody) - 1]
    ELSE Frame.helperFn[Len(Frame.helperFn) - 1]

\* C23: emitting a FixedFunctionBlender block leaves the preamble as it
\* was, the expression the strategy returns is the prior stage's output
\* name the block was given, and the statement emitted for the block
\* assigns exactly that name to the block's output variable.
C23_FixedFunctionPassThrough ==
    [][EmitsFixedFunctionBlender =>
        /\ preamble' = preamble
        /\ emitted'[Len(emitted')].prior = nextPriorStageOutputName
        /\ emitted'[Len(emitted')].expr = nextPriorStageOutputName
        /\ LastAssignment' = add_indent(nextIndent + 1) \o "outColor_"
                                \o ToString(emitted'[Len(emitted')].pos) \o " = "
                                \o nextPriorStageOutputName \o ";\n"]_vars

\* Code was generated for a SolidColor followed by a FixedFunctionBlender,
\* and for a FixedFunctionBlender that is the child of a LocalMatrixShader.
C23_Witness ==
    /\ cgpc = "done"
    /\ fBlockReaders = <<kSolidColorShader, kLocalMatrixShader, kFixedFunctionBlender,
                         kFixedFunctionBlender>>
    /\ emitted[3].expr = "inColor"
    /\ emitted[4].expr = "outColor_1"
    /\ Len(preamble) = 4
    /\ mainBody[Len(mainBody) - 1] = "    sk_FragColor = outColor_3;\n"

\* The block emitted just before the block at position pos among the
\* blocks of the same parent; -1 when the block is the first of them.
PreviousSibling(pos) ==
    LET before == {e.pos : e \in {s \in Range(emitted) :
                                    /\ s.parent = EmittedAt(pos).parent
                                    /\ s.pos < pos}}
    IN  IF before = {} THEN -1
        ELSE CHOOSE p \in before : \A q \in before : q <= p

\* C27 as stated: a block that has a sibling before it at the same parent
\* level, top-level or child, is given that sibling's output variable as
\* its prior-stage output name.
C27_SiblingsChained ==
    \A i \in DOMAIN emitted :
        PreviousSibling(emitted[i].pos) # -1
            => emitted[i].prior = EmittedAt(PreviousSibling(emitted[i].pos)).outVar

\* C27 amended: a top-level block is given the output variable of the
\* top-level block before it (initialColor for the first); every child of a
\* block with children is given the color parameter "inColor" of its
\* parent's helper function, never the output of the child before it.
C27_TopLevelChainedChildrenShareInput ==
    \A i \in DOMAIN emitted :
        LET e == emitted[i]
            before == PreviousSibling(e.pos)
        IN  /\ (e.parent = -1 /\ before = -1) => e.prior = "initialColor"
            /\ (e.parent = -1 /\ before # -1) => e.prior = EmittedAt(before).outVar
            /\ e.parent # -1 => e.prior = "inColor"
            /\ (e.parent # -1 /\ before # -1) => e.prior # EmittedAt(before).outVar

\* Code was generated for a BlendShader over two SolidColor blocks followed
\* by a top-level ShaderBasedBlender.
C27_Witness ==
    /\ cgpc = "done"
    /\ fBlockReaders = <<kBlendShader, kSolidColorShader, kSolidColorShader,
                         kShaderBasedBlender>>
    /\ emitted[2].prior = "inColor"
    /\ emitted[3].prior = "inColor"
    /\ emitted[4].prior = "outColor_0"

\* C28: in the walk of a well-formed key, the first child of the block at
\* position p is emitted at p + 1 and every further child right after the
\* last position of the subtree of the child before it, no more children
\* than the block's descriptor declares and all of them once the block has
\* returned; a block returns with the cursor on the last position of its
\* subtree, p + subtree size - 1; and no position at or beyond the number
\* of block readers is read: neither emitted nor about to be.
C28_CursorDiscipline ==
    /\ \A i \in DOMAIN emitted :
        LET e == emitted[i]
            kids == ChildrenOf(e.pos)
        IN  /\ e.pos < Len(fBlockReaders)
            /\ Len(kids) <= SnippetOf(e).fNumChildren
            /\ \A j \in DOMAIN kids :
                kids[j] = IF j = 1 THEN e.pos + 1
                          ELSE kids[j - 1] + SubtreeSizeAt(fBlockReaders, kids[j - 1])
            /\ ~e.open =>
                /\ Len(kids) = SnippetOf(e).fNumChildren
                /\ e.cursorAtReturn = e.pos + SubtreeSizeAt(fBlockReaders, e.pos) - 1
                /\ e.cursorAtReturn < Len(fBlockReaders)
    /\ cgpc = "loop" =>
        /\ entryIndex <= Len(fBlockReaders)
        /\ MoreToEmit => nextEntryIndex < Len(fBlockReaders)
        /\ ~TopLevel => entryIndex < Len(fBlockReaders)

\* Code was generated for a BlendShader whose first child is a
\* LocalMatrixShader wrapping a SolidColor and whose second child is a
\* SolidColor: the cursor was at 2 when the first child returned and at 3
\* when the BlendShader returned.
C28_Witness ==
    /\ cgpc = "done"
    /\ fBlockReaders = <<kBlendShader, kLocalMatrixShader, kSolidColorShader,
                         kSolidColorShader>>
    /\ emitted[2].cursorAtReturn = 2
    /\ emitted[4].parent = 0
    /\ emitted[1].cursorAtReturn = 3
    /\ entryIndex = 4

\* The pieces of code the walk has written so far: toSkSL's mainBody, the
\* helper functions in the preamble and the helper functions still open.
Containers ==
    {mainBody} \cup Range(preamble) \cup {callStack[k].helperFn : k \in DOMAIN callStack}

\* The indentation of the code of an emitted block: 1 in main, 0 in a
\* helper function.
IndentOf(e) == IF e.parent = -1 THEN 1 ELSE 0

\* The first two pieces emitted for a block: the declaration of its output
\* variable and the opening of its scope.
OutputDeclaration(e) ==
    add_indent(IndentOf(e)) \o "half4 outColor_" \o ToString(e.pos) \o "; // output of "
        \o SnippetOf(e).fName \o "\n"
ScopeOpening(e) == add_indent(IndentOf(e)) \o "{\n"

\* The statement assigning the block's expression to its output variable.
OutputAssignment(e) ==
    add_indent(IndentOf(e) + 1) \o "outColor_" \o ToString(e.pos) \o " = " \o e.expr \o ";\n"

\* The declaration of the transform variable of the block at its position:
\* the parent's transform expression times the block's first uniform, both
\* the variable and the uniform mangled with the position.
TransformDeclaration(e) ==
    add_indent(IndentOf(e) + 1) \o "float4x4 preLocal_" \o ToString(e.pos) \o " = ("
        \o e.parentPreLocal \o " * " \o SnippetOf(e).fUniforms[1].name \o "_"
        \o ToString(e.pos) \o ");\n"

\* C29: the code emitted for a block whose descriptor needs local
\* coordinates declares, first thing in the block's scope, the variable
\* preLocal_p as (parent transform expression * first uniform of the block
\* mangled with p), and the block's current transform is that variable; in
\* the scope of a block that does not need them nothing is declared, the
\* assignment of the block's expression is the scope's only statement, the
\* block is not flagged as declaring a transform, and its current
\* transform is the parent's expression.
C29_TransformDeclaration ==
    \A i \in DOMAIN emitted :
        LET e == emitted[i] IN
        \E code \in Containers :
            \E j \in DOMAIN code :
                /\ code[j] = OutputDeclaration(e)
                /\ j + 1 \in DOMAIN code
                /\ code[j + 1] = ScopeOpening(e)
                /\ IF needsLocalCoords(SnippetOf(e))
                   THEN /\ j + 2 \in DOMAIN code
                        /\ code[j + 2] = TransformDeclaration(e)
                        /\ e.declared
                        /\ e.currentPreLocal = "preLocal_" \o ToString(e.pos)
                        /\ ~e.open => /\ j + 3 \in DOMAIN code
                                      /\ code[j + 3] = OutputAssignment(e)
                   ELSE /\ ~e.declared
                        /\ e.currentPreLocal = e.parentPreLocal
                        /\ IF e.open THEN j + 2 \notin DOMAIN code
                           ELSE /\ j + 2 \in DOMAIN code
                                /\ code[j + 2] = OutputAssignment(e)

\* Code was generated for a LocalMatrixShader wrapping an ImageShader,
\* followed by a SolidColor: the first declares its transform from
\* initialPreLocal in main, the second from the helper's preLocal, the
\* third declares none.
C29_Witness ==
    /\ cgpc = "done"
    /\ fBlockReaders = <<kLocalMatrixShader, kImageShader, kSolidColorShader>>
    /\ Occurrences(mainBody,
            "        float4x4 preLocal_0 = (initialPreLocal * localMatrix_0);\n") # {}
    /\ Occurrences(preamble[4],
            "    float4x4 preLocal_1 = (preLocal * localMatrix_1);\n") # {}
    /\ ~emitted[3].declared

\* The call of a block's function with the given arguments.
CallOf(e, arguments) ==
    SnippetOf(e).fStaticFunctionName \o "(" \o JoinArguments(arguments) \o ")"

\* The blocks emitted with the strategy GenerateDefaultGlueCode.
DirectInvocations ==
    {e \in Range(emitted) : SnippetOf(e).fExpressionGenerator = "GenerateDefaultGlueCode"}

\* C30 as stated: the expression of every block emitted with
\* GenerateDefaultGlueCode is the call of the block's function with exactly
\* the block's uniforms, each mangled with the block's position, in
\* declared order.
C30_ArgumentsAreMangledUniforms ==
    \A e \in DirectInvocations :
        e.expr = CallOf(e, [u \in 1..Len(SnippetOf(e).fUniforms) |->
                                SnippetOf(e).fUniforms[u].name \o "_" \o ToString(e.pos)])

\* C30 amended: the expression is the call of the block's function with one
\* argument per uniform in declared order: the uniform mangled with the
\* block's position, except that a block that needs local coordinates is
\* passed its current transform variable times dev2LocalUni in the place of
\* its first uniform; the block has no child and the call is emitted once,
\* as the right-hand side of the block's assignment.
C30_ArgumentsPerUniform ==
    \A e \in DirectInvocations :
        /\ SnippetOf(e).fNumChildren = 0
        /\ e.expr = CallOf(e, [u \in 1..Len(SnippetOf(e).fUniforms) |->
                                IF u = 1 /\ needsLocalCoords(SnippetOf(e))
                                THEN "preLocal_" \o ToString(e.pos) \o " * dev2LocalUni"
                                ELSE SnippetOf(e).fUniforms[u].name \o "_"
                                        \o ToString(e.pos)])
        /\ \E code \in Containers : Cardinality(Occurrences(code, OutputAssignment(e))) = 1

\* Code was generated for a SolidColor followed by a four-stop linear
\* gradient.
C30_Witness ==
    /\ cgpc = "done"
    /\ fBlockReaders = <<kSolidColorShader, kLinearGradientShader4>>
    /\ emitted[1].expr = "sk_solid_shader(color_0)"
    /\ emitted[2].expr = "sk_linear_grad_4_shader(preLocal_1 * dev2LocalUni, colors_1, offsets_1, point0_1, point1_1, tilemode_1)"

----------------------------------------------------------------------------
(* The Graphite promise image tests: a promise image made by
   setup_test_context is drawn, snapped into Recordings, inserted and
   submitted, and PromiseTextureChecker counts the Fulfill, ImageRelease and
   TextureRelease callbacks.  The life cycle is the one the REPORTER_ASSERTs
   of the test functions pin down; TestExpectations below holds the model
   to every one of them. *)

\* Cap on the Recordings alive at a time.
MaxRecordings == 2

\* Cap on the insertRecording calls of recordings that use the image.
MaxInserts == 6

\* PromiseTextureChecker::Fulfill, ImageRelease and TextureRelease, called
\* n times.
Fulfill(checker, n) == [checker EXCEPT !.fFulfillCount = @ + n]
ImageRelease(checker, n) == [checker EXCEPT !.fImageReleaseCount = @ + n]
TextureRelease(checker, n) == [checker EXCEPT !.fTextureReleaseCount = @ + n]

\* check_fulfill_and_release_cnts: TRUE when none of its REPORTER_ASSERTs
\* fails.
check_fulfill_and_release_cnts(promiseChecker, expectedFulfillCnt, releaseBalanceExpectation) ==
    /\ promiseChecker.fFulfillCount = expectedFulfillCnt
    /\ IF expectedFulfillCnt = 0
       THEN /\ promiseChecker.fImageReleaseCount = 0
            /\ promiseChecker.fTextureReleaseCount = 0
       ELSE LET releaseDiff == promiseChecker.fFulfillCount
                                    - promiseChecker.fTextureReleaseCount
            IN  CASE releaseBalanceExpectation = "kBalanced" -> releaseDiff = 0
                  [] releaseBalanceExpectation = "kOffByOne" -> releaseDiff = 1
                  [] releaseBalanceExpectation = "kOffByTwo" -> releaseDiff = 2
                  [] releaseBalanceExpectation = "kFulfillsOnly" ->
                        promiseChecker.fTextureReleaseCount = 0

\* A statement of a test function: an operation, followed or not by a call
\* of check_fulfill_and_release_cnts (expectedFulfillCnt -1: none) and of
\* checkImageReleased (expectedReleaseCnt -1: none).
Unchecked(op) == [op |-> op, expectedFulfillCnt |-> -1, expectation |-> "none", expectedReleaseCnt |-> -1]
Checked(op, expectedFulfillCnt, expectation) == [op |-> op, expectedFulfillCnt |-> expectedFulfillCnt, expectation |-> expectation, expectedReleaseCnt |-> -1]
ImageChecked(op, expectedReleaseCnt) == [op |-> op, expectedFulfillCnt |-> -1, expectation |-> "none", expectedReleaseCnt |-> expectedReleaseCnt]

\* check_unfulfilled, check_fulfilled_ahead_by_one, check_fulfilled_ahead_by_two,
\* check_all_done and check_fulfills_only after an operation.
check_unfulfilled(op) == Checked(op, 0, "kBalanced")
check_fulfilled_ahead_by_one(op, expectedFulfillCnt) == Checked(op, expectedFulfillCnt, "kOffByOne")
check_fulfilled_ahead_by_two(op, expectedFulfillCnt) == Checked(op, expectedFulfillCnt, "kOffByTwo")
check_all_done(op, expectedFulfillCnt) == Checked(op, expectedFulfillCnt, "kBalanced")
check_fulfills_only(op, expectedFulfillCnt) == Checked(op, expectedFulfillCnt, "kFulfillsOnly")

\* The operations of NonVolatileGraphitePromiseImageTest; a Recording is
\* reset where the block that declares it ends.
NonVolatileGraphitePromiseImageTest ==
    << Unchecked(Setup(FALSE, FALSE, "16x16")),
       check_unfulfilled(Operation("drawImage")),
       check_unfulfilled(Operation("snap")),
       check_fulfilled_ahead_by_one(Operation("insertRecording"), 1),
       Unchecked(Operation("recording_reset")),
       check_fulfilled_ahead_by_one(Submit("kNo"), 1),
       check_fulfilled_ahead_by_one(Submit("kYes"), 1),
       Unchecked(Operation("drawImage")),
       Unchecked(Operation("drawImage")),
       check_fulfilled_ahead_by_one(Operation("snap"), 1),
       check_fulfilled_ahead_by_one(Operation("insertRecording"), 1),
       Unchecked(Operation("recording_reset")),
       check_fulfilled_ahead_by_one(Submit("kYes"), 1),
       Unchecked(Operation("drawImage")),
       Unchecked(Operation("fImg_reset")),
       check_fulfilled_ahead_by_one(Operation("snap"), 1),
       check_fulfilled_ahead_by_one(Operation("insertRecording"), 1),
       [check_fulfilled_ahead_by_one(Operation("recording_reset"), 1)
            EXCEPT !.expectedReleaseCnt = 1],
       check_all_done(Submit("kYes"), 1) >>

\* NonVolatileGraphitePromiseImageFulfillFailureTest (the three ways of
\* drawing the image are one drawImage here).
NonVolatileGraphitePromiseImageFulfillFailureTest ==
    << Unchecked(Setup(FALSE, TRUE, "16x16")),
       check_unfulfilled(Operation("drawImage")),
       check_unfulfilled(Operation("snap")),
       check_fulfilled_ahead_by_one(Operation("insertRecording"), 1),
       check_fulfills_only(Operation("insertRecording"), 2),
       Unchecked(Operation("recording_reset")),
       Unchecked(Operation("drawImage")),
       check_fulfills_only(Operation("snap"), 2),
       check_fulfills_only(Operation("insertRecording"), 3),
       Unchecked(Operation("recording_reset")),
       Unchecked(Operation("drawImage")),
       check_fulfills_only(Operation("snap"), 3),
       check_fulfills_only(Operation("insertRecording"), 4),
       Unchecked(Operation("recording_reset")),
       ImageChecked(Operation("fImg_reset"), 1),
       check_fulfills_only(Submit("kYes"), 4) >>

\* NonVolatileGraphitePromiseImageCreationFailureTest
NonVolatileGraphitePromiseImageCreationFailureTest ==
    << ImageChecked(Setup(FALSE, TRUE, "0x0"), 1) >>

\* VolatileGraphitePromiseImageTest
VolatileGraphitePromiseImageTest ==
    << Unchecked(Setup(TRUE, FALSE, "16x16")),
       check_unfulfilled(Operation("drawImage")),
       check_unfulfilled(Operation("snap")),
       check_fulfilled_ahead_by_one(Operation("insertRecording"), 1),
       check_fulfilled_ahead_by_two(Operation("insertRecording"), 2),
       Unchecked(Operation("recording_reset")),
       check_all_done(Submit("kYes"), 2),
       Unchecked(Operation("drawImage")),
       Unchecked(Operation("drawImage")),
       check_all_done(Operation("snap"), 2),
       check_fulfilled_ahead_by_one(Operation("insertRecording"), 3),
       check_fulfilled_ahead_by_two(Operation("insertRecording"), 4),
       Unchecked(Operation("recording_reset")),
       check_all_done(Submit("kYes"), 4),
       Unchecked(Operation("drawImage")),
       Unchecked(Operation("fImg_reset")),
       check_all_done(Operation("snap"), 4),
       check_fulfilled_ahead_by_one(Operation("insertRecording"), 5),
       check_fulfilled_ahead_by_two(Operation("insertRecording"), 6),
       check_fulfilled_ahead_by_two(Operation("recording_reset"), 6),
       check_all_done(Submit("kYes"), 6) >>

\* VolatileGraphitePromiseImageFulfillFailureTest
VolatileGraphitePromiseImageFulfillFailureTest ==
    << Unchecked(Setup(TRUE, TRUE, "16x16")),
       check_unfulfilled(Operation("drawImage")),
       check_unfulfilled(Operation("snap")),
       check_fulfills_only(Operation("insertRecording"), 1),
       check_fulfills_only(Operation("insertRecording"), 2),
       Unchecked(Operation("recording_reset")),
       Unchecked(Operation("drawImage")),
       check_fulfills_only(Operation("snap"), 2),
       check_fulfills_only(Operation("insertRecording"), 3),
       check_fulfills_only(Operation("insertRecording"), 4),
       Unchecked(Operation("recording_reset")),
       Unchecked(Operation("drawImage")),
       check_fulfills_only(Operation("snap"), 4),
       check_fulfills_only(Operation("insertRecording"), 5),
       check_fulfills_only(Operation("insertRecording"), 6),
       Unchecked(Operation("recording_reset")),
       Unchecked(Operation("fImg_reset")),
       check_fulfills_only(Submit("kYes"), 6) >>

\* The statements of each test function.
Tests ==
    [test \in TestNames |->
        CASE test = "NonVolatileGraphitePromiseImageTest" ->
                NonVolatileGraphitePromiseImageTest
          [] test = "NonVolatileGraphitePromiseImageFulfillFailureTest" ->
                NonVolatileGraphitePromiseImageFulfillFailureTest
          [] test = "NonVolatileGraphitePromiseImageCreationFailureTest" ->
                NonVolatileGraphitePromiseImageCreationFailureTest
          [] test = "VolatileGraphitePromiseImageTest" ->
                VolatileGraphitePromiseImageTest
          [] test = "VolatileGraphitePromiseImageFulfillFailureTest" ->
                VolatileGraphitePromiseImageFulfillFailureTest]

\* The operation op has been performed: the position in every test
\* function whose next statement is this operation moves on; -1 when the
\* operations performed are not, or no longer, those of the test function.
Follows(test, op) ==
    IF /\ testPosition[test] # -1
       /\ testPosition[test] < Len(Tests[test])
       /\ Tests[test][testPosition[test] + 1].op = op
    THEN testPosition[test] + 1
    ELSE -1

\* What an operation leaves in the history: itself, whether the recording
\* it was given uses the image, and the callbacks counted during it.
Performed(op, uses, checker) ==
    /\ promiseLast' = [op |-> op, uses |-> uses,
                       fulfilled |-> checker.fFulfillCount
                                        - fPromiseChecker.fFulfillCount,
                       released |-> checker.fTextureReleaseCount
                                        - fPromiseChecker.fTextureReleaseCount]
    /\ testPosition' = [test \in TestNames |-> Follows(test, op)]

\* The image's texture proxy is referenced: by fImg, by draws the Recorder
\* has not snapped, or by a live Recording that uses the image
\* ("fImg's proxy is reffed by the recording").
ProxyAlive(img, draws, recs) ==
    \/ img = "held"
    \/ draws
    \/ \E i \in DOMAIN recs : recs[i].uses

\* The texture of a non-volatile image has lost its last reference: it was
\* attached by a successful Fulfill, the proxy is gone, and no command
\* buffer that uses it is pending or in flight.
nonVolatileTextureUnreffed_NeverAttached(attached, alive, pending, inFlight) ==
    ~alive /\ pending = 0 /\ inFlight = 0
nonVolatileTextureUnreffed(attached, alive, pending, inFlight) ==
    attached /\ ~alive /\ pending = 0 /\ inFlight = 0

\* The release callbacks due once the references are as given: ImageRelease
\* when the proxy goes away, TextureRelease of a non-volatile image when its
\* texture has lost its last reference; each at most once.
ReleaseCallbacks(checker, img, draws, recs, attached, pending, inFlight) ==
    LET alive == ProxyAlive(img, draws, recs)
        imageReleased ==
            IF ~alive /\ checker.fImageReleaseCount = 0 THEN 1 ELSE 0
        textureReleased ==
            IF /\ ~isVolatile
               /\ checker.fTextureReleaseCount = 0
               /\ nonVolatileTextureUnreffed(attached, alive, pending, inFlight)
            THEN 1 ELSE 0
    IN  TextureRelease(ImageRelease(checker, imageReleased), textureReleased)

\* insertRecording calls Fulfill for a promise image its recording uses: a
\* volatile image every time, a non-volatile image as long as no texture
\* is attached to it.
needsFulfill_EveryTime(volatile, attached) == TRUE
needsFulfill(volatile, attached) == volatile \/ ~attached

\* The texture references a command buffer holds after one more is added:
\* one per fulfilled texture of a volatile image, the one texture of a
\* non-volatile image.
AddRef(volatile, refs) == IF volatile THEN refs + 1 ELSE 1
MergeRefs(volatile, refs, more) ==
    IF volatile THEN refs + more ELSE IF refs + more > 0 THEN 1 ELSE 0

\* The submitted work that a submit finds finished: all of it when the
\* call waits for the GPU (SyncToCpu::kYes).
finishedWork_None(syncToCpu, work) == 0
finishedWork(syncToCpu, work) == IF syncToCpu = "kYes" THEN work ELSE 0

\* setup_test_context: the backend texture and PromiseTextureChecker are
\* made and SkImage::MakeGraphitePromiseTexture called; with invalid
\* dimensions it fails, fImg is null and ImageRelease has been called.
setup_test_context(volatile, invalidBackendTex, dimensions) ==
    LET checker == ImageRelease([fFulfillCount |-> 0, fImageReleaseCount |-> 0,
                                 fTextureReleaseCount |-> 0],
                                IF dimensions = "0x0" THEN 1 ELSE 0)
    IN
    /\ fImg = "unset"
    /\ isVolatile' = volatile
    /\ fBackendTex' = IF invalidBackendTex THEN "invalid" ELSE "valid"
    /\ fImg' = IF dimensions = "0x0" THEN "null" ELSE "held"
    /\ fPromiseChecker' = checker
    /\ Performed(Setup(volatile, invalidBackendTex, dimensions), FALSE, checker)
    /\ UNCHANGED <<recorderDraws, recordings, instantiated, fCurrentCommandBuffer,
                   submitted, insertsUsing, syncedSinceInsert>>
    /\ UNCHANGED <<cacheVars, fSpinLock, registryVars, info, codegenVars, quadVars>>

\* canvas->drawImage(testContext.fImg, 0, 0)
drawImage ==
    /\ fImg = "held"
    /\ recorderDraws' = TRUE
    /\ Performed(Operation("drawImage"), FALSE, fPromiseChecker)
    /\ UNCHANGED <<isVolatile, fBackendTex, fImg, fPromiseChecker, recordings,
                   instantiated, fCurrentCommandBuffer, submitted, insertsUsing,
                   syncedSinceInsert>>
    /\ UNCHANGED <<cacheVars, fSpinLock, registryVars, info, codegenVars, quadVars>>

\* testContext.fRecorder->snap()
snap ==
    /\ fImg # "unset"
    /\ Len(recordings) < MaxRecordings
    /\ recordings' = Append(recordings, [uses |-> recorderDraws])
    /\ recorderDraws' = FALSE
    /\ Performed(Operation("snap"), recorderDraws, fPromiseChecker)
    /\ UNCHANGED <<isVolatile, fBackendTex, fImg, fPromiseChecker, instantiated,
                   fCurrentCommandBuffer, submitted, insertsUsing, syncedSinceInsert>>
    /\ UNCHANGED <<cacheVars, fSpinLock, registryVars, info, codegenVars, quadVars>>

\* context->insertRecording({ recording.get() })
insertRecording(r) ==
    LET uses == recordings[r].uses
        fulfill == uses /\ needsFulfill(isVolatile, instantiated)
        attached == IF fulfill THEN fBackendTex = "valid" ELSE instantiated
        added == uses /\ attached
        checker == Fulfill(fPromiseChecker, IF fulfill THEN 1 ELSE 0)
    IN
    /\ r \in DOMAIN recordings
    /\ uses => insertsUsing < MaxInserts
    /\ fPromiseChecker' = checker
    /\ instantiated' = IF isVolatile THEN FALSE ELSE IF uses THEN attached ELSE instantiated
    /\ fCurrentCommandBuffer' = IF added THEN AddRef(isVolatile, fCurrentCommandBuffer)
                                ELSE fCurrentCommandBuffer
    /\ insertsUsing' = IF uses THEN insertsUsing + 1 ELSE insertsUsing
    /\ syncedSinceInsert' = IF added THEN FALSE ELSE syncedSinceInsert
    /\ Performed(Operation("insertRecording"), uses, checker)
    /\ UNCHANGED <<isVolatile, fBackendTex, fImg, recorderDraws, recordings, submitted>>
    /\ UNCHANGED <<cacheVars, fSpinLock, registryVars, info, codegenVars, quadVars>>

\* context->submit(syncToCpu)
submit(syncToCpu) ==
    LET work == MergeRefs(isVolatile, submitted, fCurrentCommandBuffer)
        finished == finishedWork(syncToCpu, work)
        inFlight == work - finished
        checker == ReleaseCallbacks(
                        TextureRelease(fPromiseChecker, IF isVolatile THEN finished ELSE 0),
                        fImg, recorderDraws, recordings, instantiated, 0, inFlight)
    IN
    /\ fImg # "unset"
    /\ fCurrentCommandBuffer' = 0
    /\ submitted' = inFlight
    /\ fPromiseChecker' = checker
    /\ syncedSinceInsert' = (syncToCpu = "kYes" \/ syncedSinceInsert)
    /\ Performed(Submit(syncToCpu), FALSE, checker)
    /\ UNCHANGED <<isVolatile, fBackendTex, fImg, recorderDraws, recordings, instantiated,
                   insertsUsing>>
    /\ UNCHANGED <<cacheVars, fSpinLock, registryVars, info, codegenVars, quadVars>>

\* testContext.fImg.reset()
fImg_reset ==
    LET checker == ReleaseCallbacks(fPromiseChecker, "null", recorderDraws, recordings,
                                    instantiated, fCurrentCommandBuffer, submitted)
    IN
    /\ fImg = "held"
    /\ fImg' = "null"
    /\ fPromiseChecker' = checker
    /\ Performed(Operation("fImg_reset"), FALSE, checker)
    /\ UNCHANGED <<isVolatile, fBackendTex, recorderDraws, recordings, instantiated,
                   fCurrentCommandBuffer, submitted, insertsUsing, syncedSinceInsert>>
    /\ UNCHANGED <<cacheVars, fSpinLock, registryVars, info, codegenVars, quadVars>>

\* A std::unique_ptr<Recording> goes out of scope or is reset.
recording_reset(r) ==
    LET remaining == SubSeq(recordings, 1, r - 1)
                        \o SubSeq(recordings, r + 1, Len(recordings))
        checker == ReleaseCallbacks(fPromiseChecker, fImg, recorderDraws, remaining,
                                    instantiated, fCurrentCommandBuffer, submitted)
    IN
    /\ r \in DOMAIN recordings
    /\ recordings' = remaining
    /\ fPromiseChecker' = checker
    /\ Performed(Operation("recording_reset"), recordings[r].uses, checker)
    /\ UNCHANGED <<isVolatile, fBackendTex, fImg, recorderDraws, instantiated,
                   fCurrentCommandBuffer, submitted, insertsUsing, syncedSinceInsert>>
    /\ UNCHANGED <<cacheVars, fSpinLock, registryVars, info, codegenVars, quadVars>>

NextPromise ==
    \/ \E volatile, invalidBackendTex \in BOOLEAN, dimensions \in {"16x16", "0x0"} :
            setup_test_context(volatile, invalidBackendTex, dimensions)
    \/ drawImage
    \/ snap
    \/ \E r \in 1..MaxRecordings : insertRecording(r)
    \/ \E syncToCpu \in {"kNo", "kYes"} : submit(syncToCpu)
    \/ fImg_reset
    \/ \E r \in 1..MaxRecordings : recording_reset(r)

SpecPromise == Init /\ [][NextPromise]_vars

----------------------------------------------------------------------------
(* Properties of the promise image life cycle *)

\* Every REPORTER_ASSERT of check_fulfill_and_release_cnts and of
\* checkImageReleased that a test function makes after the operations
\* performed so far holds.
TestExpectations ==
    \A test \in TestNames :
        testPosition[test] > 0 =>
            LET statement == Tests[test][testPosition[test]] IN
            /\ statement.expectedFulfillCnt >= 0
                => check_fulfill_and_release_cnts(fPromiseChecker,
                                                  statement.expectedFulfillCnt,
                                                  statement.expectation)
            /\ statement.expectedReleaseCnt >= 0
                => fPromiseChecker.fImageReleaseCount = statement.expectedReleaseCnt

\* C24: whatever operations have been performed on a promise image, volatile
\* or not, fulfilled successfully or not, TextureRelease has been called at
\* most as often as Fulfill, never before a Fulfill call, and an operation
\* that calls TextureRelease comes after a Fulfill call made by an earlier
\* operation; and the counts are those every assertion of the test
\* functions expects after the operations the functions perform.
C24_ReleasesNeverExceedFulfills ==
    /\ TestExpectations
    /\ fPromiseChecker.fTextureReleaseCount <= fPromiseChecker.fFulfillCount
    /\ fPromiseChecker.fFulfillCount = 0 => fPromiseChecker.fTextureReleaseCount = 0
    /\ promiseLast.released > 0
        => /\ promiseLast.fulfilled = 0
           /\ fPromiseChecker.fFulfillCount > 0

\* The operations of VolatileGraphitePromiseImageTest have been performed
\* up to the insertRecording of its second block: three fulfills, two
\* textures released.
C24_Witness ==
    /\ testPosition["VolatileGraphitePromiseImageTest"] = 11
    /\ fPromiseChecker.fFulfillCount = 3
    /\ fPromiseChecker.fTextureReleaseCount = 2
    /\ promiseLast.op = Operation("insertRecording")

C26_VolatileBalancedAfterSync ==
    (fImg # "unset" /\ isVolatile) =>
        /\ fPromiseChecker.fFulfillCount = insertsUsing
        /\ promiseLast.op = Operation("snap") => promiseLast.fulfilled = 0
        /\ promiseLast.op = Submit("kYes")
            => fPromiseChecker.fTextureReleaseCount = fPromiseChecker.fFulfillCount

\* C26 amended: for a volatile promise image Fulfill has been called once
\* per insertRecording of a recording that uses it, a recording inserted
\* again included, and snap calls nothing; when the fulfills succeed (the
\* backend texture is valid), TextureRelease has been called as often as
\* Fulfill after a submit(SyncToCpu::kYes); when they fail, TextureRelease
\* is never called.
C26_VolatileBalancedWhenFulfilled ==
    (fImg # "unset" /\ isVolatile) =>
        /\ fPromiseChecker.fFulfillCount = insertsUsing
        /\ (promiseLast.op = Operation("insertRecording") /\ promiseLast.uses)
            => promiseLast.fulfilled = 1
        /\ promiseLast.op = Operation("snap") => promiseLast.fulfilled = 0
        /\ (fBackendTex = "valid" /\ promiseLast.op = Submit("kYes"))
            => fPromiseChecker.fTextureReleaseCount = fPromiseChecker.fFulfillCount
        /\ fBackendTex = "invalid" => fPromiseChecker.fTextureReleaseCount = 0

\* One recording using a volatile image was inserted twice, and both
\* textures were released by submit(kYes).
C26_Witness ==
    /\ isVolatile
    /\ fBackendTex = "valid"
    /\ insertsUsing = 2
    /\ fPromiseChecker.fFulfillCount = 2
    /\ fPromiseChecker.fTextureReleaseCount = 2
    /\ promiseLast.op = Submit("kYes")
    /\ promiseLast.released = 2
    /\ testPosition["VolatileGraphitePromiseImageTest"] = 7

----------------------------------------------------------------------------
(* Consistency of the hash index and the identity list *)

\* C31: in every state of the dictionary slot 0 of the identity list is
\* empty, every Entry of the hash index sits in the identity list at its own
\* identity, the hash index holds one Entry per slot after slot 0, and the
\* assertion of findOrCreate's hit path has never failed.
C31_IndexConsistency ==
    /\ VectorSize >= 1
    /\ VectorAt(0) = NULL
    /\ \A s \in fHash :
          /\ s.val \in 1..Len(fArenaEntries)
          /\ EntryID(s.val) \in 1..(VectorSize - 1)
          /\ VectorAt(EntryID(s.val)) = s.val
          /\ HitAssertion(s.val)
    /\ Cardinality(fHash) = VectorSize - 1
    /\ Cardinality({s.val : s \in fHash}) = VectorSize - 1
    /\ last.op = "findOrCreate_hit" => last.outcome = "ok"

\* The second of two Entries was found through the hash index, by a
\* builder holding bytes that collide with the first Entry's.
C31_Witness ==
    /\ last.op = "findOrCreate_hit"
    /\ last.outcome = "ok"
    /\ last.ret = 2
    /\ VectorSize = 3
    /\ Cardinality(fHash) = 2
    /\ hash_fn(EntryKeyBytes(1)) = hash_fn(EntryKeyBytes(2))
    /\ VectorAt(EntryID(last.ret)) = last.ret

----------------------------------------------------------------------------
(* Termination of code generation *)

\* The thread that called toSkSL goes on executing it: a step of the walk
\* that can be taken is taken.
toSkSL_step ==
    \/ \E curEntryIndex \in 0..(MaxBlocks + 1) : emit_glue_code_for_entry(curEntryIndex)
    \/ \E curEntryIndex \in 0..(MaxBlocks + 1) :
            GenerateDefaultGlueCodeWithChildren_enter(curEntryIndex)
    \/ GenerateDefaultGlueCodeWithChildren_return
    \/ toSkSL_end

SpecCodegenRun == Init /\ [][NextCodegen]_vars /\ WF_vars(toSkSL_step)

\* What is left of a toSkSL call: the blocks not yet emitted, the helper
\* functions not yet finished and the final assignment.
RemainingWork ==
    2 * (Len(fBlockReaders) - Len(emitted)) + Len(callStack)
        + (IF cgpc = "loop" THEN 1 ELSE 0)

\* C32: toSkSL terminates for every well-formed key: every block emitted is
\* at a position of the key above the positions of all blocks emitted before
\* it, every step of the walk leaves less work than there was, the walk
\* ends with the cursor at the end of the block readers, and a call that
\* has entered the loop gets to its end.
C32_RunsToCompletion ==
    /\ [][cgpc = "loop" =>
            /\ RemainingWork' < RemainingWork
            /\ RemainingWork' >= 0
            /\ entryIndex' >= entryIndex
            /\ Len(emitted') > Len(emitted) =>
                  /\ emitted'[Len(emitted')].pos < Len(fBlockReaders)
                  /\ \A i \in DOMAIN emitted :
                        emitted[i].pos < emitted'[Len(emitted')].pos
       ]_vars
    /\ [](cgpc = "done" => (entryIndex = Len(fBlockReaders) /\ callStack = << >>))
    /\ (cgpc = "loop" ~> cgpc = "done")

\* toSkSL returned for a key of MaxBlocks blocks nested three deep.
C32_Witness ==
    /\ cgpc = "done"
    /\ Len(fBlockReaders) = MaxBlocks
    /\ entryIndex = MaxBlocks
    /\ Len(emitted) = MaxBlocks
    /\ \E i, j \in DOMAIN emitted :
          /\ emitted[i].parent = emitted[j].pos
          /\ emitted[j].parent # -1

----------------------------------------------------------------------------
(* Order of the helper functions in the preamble *)

\* Where in the preamble the helper function of an emitted block stands.
HelperAt(e) ==
    {k \in DOMAIN preamble :
        preamble[k][1] = "half4 "
                            \o get_mangled_name(SnippetOf(e).fStaticFunctionName, e.pos)
                            \o "(half4 inColor, float4x4 preLocal) {"}

\* The emitted blocks below an emitted block in the tree of the key.
DescendantsOf(e) ==
    {d \in Range(emitted) :
        e.pos < d.pos /\ d.pos < e.pos + SubtreeSizeAt(fBlockReaders, e.pos)}

\* C33: the preamble holds one helper function per block with children
\* that has returned and none of a block whose children are still being
\* emitted; the helper function of every descendant of such a block stands
\* in the preamble before the block's own helper function, so that the
\* helper a helper function calls for a child is defined above it, and the
\* helpers the main body calls are in the preamble, which toSkSL puts in
\* front of the main body.
C33_HelpersInPostOrder ==
    /\ Len(preamble) >= 3 =>
          Len(preamble) = 3 + Cardinality({i \in DOMAIN emitted :
                                    EmitsChildren(SnippetOf(emitted[i]))
                                        /\ ~emitted[i].open})
    /\ \A i \in DOMAIN emitted :
        LET e == emitted[i] IN
        EmitsChildren(SnippetOf(e)) =>
            /\ e.open => HelperAt(e) = {}
            /\ ~e.open =>
                /\ Cardinality(HelperAt(e)) = 1
                /\ \A k \in HelperAt(e) : k > 3
                /\ \A d \in DescendantsOf(e) :
                    EmitsChildren(SnippetOf(d)) =>
                        /\ ~d.open
                        /\ HelperAt(d) # {}
                        /\ \A k \in HelperAt(e), j \in HelperAt(d) : j < k
                /\ \A d \in DescendantsOf(e) :
                    (d.parent = e.pos /\ EmitsChildren(SnippetOf(d))) =>
                        \A k \in HelperAt(e) :
                            /\ Occurrences(preamble[k], AssignmentInHelper(d)) # {}
                            /\ d.expr = get_mangled_name(SnippetOf(d).fStaticFunctionName,
                                                         d.pos)
                                            \o "(inColor, " \o d.currentPreLocal \o ")"

\* Code was generated for a LocalMatrixShader wrapping a BlendShader of two
\* SolidColors: the helper of the BlendShader stands above the helper of
\* the LocalMatrixShader that calls it.
C33_Witness ==
    /\ cgpc = "done"
    /\ fBlockReaders = <<kLocalMatrixShader, kBlendShader, kSolidColorShader,
                         kSolidColorShader>>
    /\ Len(preamble) = 5
    /\ HelperAt(emitted[2]) = {4}
    /\ HelperAt(emitted[1]) = {5}
    /\ preamble[4][1] = "half4 sk_blend_shader_1(half4 inColor, float4x4 preLocal) {"
    /\ Occurrences(preamble[5], "    outColor_1 = sk_blend_shader_1(inColor, preLocal);\n") # {}

----------------------------------------------------------------------------
(* The blend descriptor of an Entry *)

\* A step in which thread t returns from findOrCreate's hit path, and one in
\* which it returns from the miss path.
HitReturn(t) == pc[t] = "find" /\ pc'[t] = "idle"
MissReturn(t) == pc[t] = "insert" /\ pc'[t] = "idle"

\* C34: the blend info of an Entry is the one the builder of the call that
\* created it carried, and it stays: a findOrCreate whose builder holds the
\* bytes of an existing Entry returns that Entry, whatever blend info the
\* builder carries, creates no second Entry for the bytes and leaves the
\* Entry's blend info and the hash index as they were.
C34_BlendFixedByFirstInsertion ==
    /\ [][\A t \in Threads : HitReturn(t) =>
            /\ last'.ret \in EntriesWith(builderData[t])
            /\ fArenaEntries' = fArenaEntries
            /\ fHash' = fHash
            /\ fArenaEntries'[last'.ret].fBlendInfo = fArenaEntries[last'.ret].fBlendInfo
         ]_vars
    /\ [][\A t \in Threads : MissReturn(t) =>
            /\ EntriesWith(builderData[t]) = {}
            /\ last'.ret = Len(fArenaEntries) + 1
            /\ fArenaEntries'[last'.ret].fBlendInfo = builderBlend[t]
         ]_vars
    /\ [][\A e \in 1..Len(fArenaEntries) :
            fArenaEntries'[e].fBlendInfo = fArenaEntries[e].fBlendInfo]_vars
    /\ [](\A data \in KeyData : Cardinality(EntriesWith(data)) <= 1)

\* A builder holding the bytes of the first Entry and another blend info
\* was handed the first Entry, which still has the blend info it was
\* created with.
C34_Witness ==
    /\ last.op = "findOrCreate_hit"
    /\ last.ret = 1
    /\ pc[last.t] = "idle"
    /\ builderData[last.t] = EntryKeyBytes(1)
    /\ builderBlend[last.t] = "kSrc"
    /\ fArenaEntries[1].fBlendInfo = "kSrcOver"
    /\ Len(fArenaEntries) = 1
    /\ \A s \in fHash : fArenaEntries[s.val].fBlendInfo = "kSrcOver"

----------------------------------------------------------------------------
(* The dictionary spinlock across findOrCreate, lookup and
   findOrCreateRuntimeEffectSnippet *)

\* A thread runs one call of the dictionary at a time.
Calling(t) == pc[t] # "idle" \/ reg[t].pc # "idle"

\* The identities looked up while the lock is contended: the invalid one,
\* the first issued and one beyond the identity list.
LockCodeIDs == {0, 1, MaxEntries + 1}

\* The three operations that take fSpinLock, called by threads that share
\* one dictionary.
NextLock ==
    \/ \E t \in Threads, data \in InfoKeyData :
            ~Calling(t) /\ findOrCreate_lockAsKey(t, data, "kSrcOver")
    \/ \E t \in Threads : findOrCreate_hit(t)
    \/ \E t \in Threads : findOrCreate_miss(t)
    \/ \E t \in Threads : findOrCreate_insert(t)
    \/ \E t \in Threads, codeID \in LockCodeIDs : ~Calling(t) /\ lookup_invalid(t, codeID)
    \/ \E t \in Threads, codeID \in LockCodeIDs : ~Calling(t) /\ lookup_valid(t, codeID)
    \/ \E t \in Threads, codeID \in LockCodeIDs : ~Calling(t) /\ lookup_outOfRange(t, codeID)
    \/ \E t \in Threads, effect \in {EffectA} :
            ~Calling(t) /\ findOrCreateRuntimeEffectSnippet_call(t, effect)
    \/ \E t \in Threads : findOrCreateRuntimeEffectSnippet_hit(t)
    \/ \E t \in Threads : findOrCreateRuntimeEffectSnippet_miss(t)
    \/ \E t \in Threads : push_back_begin(t)
    \/ \E t \in Threads : push_back_end(t)
    \/ \E t \in Threads : findOrCreateRuntimeEffectSnippet_return(t)

SpecLock == Init /\ [][NextLock]_vars

\* The thread's next statement is SkAutoSpinlock lock{fSpinLock}.
AboutToLock(t) == pc[t] = "find" \/ reg[t].pc = "find"

\* The thread is on the miss path of findOrCreate, or on the miss path of
\* findOrCreateRuntimeEffectSnippet including the addUserDefinedSnippet call
\* it makes (convertUniforms and addTextToArena are evaluated for its
\* arguments).
InsideLockedRegion(t) ==
    \/ pc[t] = "insert" /\ reg[t].pc = "idle"
    \/ /\ pc[t] = "idle"
       /\ reg[t].op = "findOrCreateRuntimeEffectSnippet"
       /\ reg[t].pc \in {"push", "pushing", "size"}

\* The step the holder of the lock takes next.
HolderStep(t) ==
    \/ findOrCreate_insert(t)
    \/ push_back_begin(t)
    \/ push_back_end(t)
    \/ findOrCreateRuntimeEffectSnippet_return(t)

\* C35: the spinlock is held only by a thread inside the locked region of
\* findOrCreate or findOrCreateRuntimeEffectSnippet; the holder is never
\* about to lock again, a thread that is in no call holds no lock, every
\* step that returns from findOrCreate or findOrCreateRuntimeEffectSnippet
\* leaves the lock free of the returning thread, a lookup leaves the lock
\* as it found it (free, when the identity is valid and it took the lock),
\* the lock is only ever taken while it is free,
\* and the holder can always take its next step, so that the lock is given
\* up and nobody waits for it for ever.
C35_LockReleasedOnEveryPath ==
    /\ [](fSpinLock \in Threads \cup {NoThread})
    /\ [](\A t \in Threads :
            /\ fSpinLock = t => (InsideLockedRegion(t) /\ ~AboutToLock(t))
            /\ InsideLockedRegion(t) => fSpinLock = t
            /\ ~Calling(t) => fSpinLock # t
            /\ (fSpinLock = t /\ ~Halted) => ENABLED HolderStep(t))
    /\ [][\A t \in Threads :
            /\ (Calling(t) /\ ~Calling(t)') => fSpinLock' # t
            /\ (fSpinLock # t /\ fSpinLock' = t) => fSpinLock = NoThread
            /\ (last' # last /\ last'.op = "lookup") =>
                    /\ fSpinLock' = fSpinLock
                    /\ isValid(last'.id) => fSpinLock = NoThread
         ]_vars

\* A thread returned from the miss path of findOrCreateRuntimeEffectSnippet
\* while the other thread, which waited for the lock in findOrCreate, has
\* taken it.
C35_Witness ==
    /\ regLast.op = "findOrCreateRuntimeEffectSnippet"
    /\ regLast.t = 1
    /\ ~Calling(1)
    /\ fSpinLock = 2
    /\ pc[2] = "insert"
    /\ Len(fUserDefinedCodeSnippets) = 1
    /\ last.op = "findOrCreate_miss"

----------------------------------------------------------------------------
(* isValidID and getEntry *)

\* Whatever isValidID(id) and getEntry(id) can return to thread t in this
\* state, isValidID is true exactly when getEntry returns a descriptor of
\* the registry, which is exactly when the identity is a built-in one or
\* the position of a user-defined descriptor.
ValidityAgrees(t, id) ==
    \A flag \in isValidID_results(t, id), ret \in getEntry_results(t, id) :
        /\ flag <=> (0 <= id /\ id < kBuiltInCodeSnippetIDCount
                                        + Len(fUserDefinedCodeSnippets))
        /\ flag <=> (ret # NoSnippet)
        /\ ret # WildSnippet
        /\ flag => ret = getEntryIn(id, fUserDefinedCodeSnippets)

\* C36: in every state of the registry and for every identity, negative,
\* built-in, user-defined or beyond the list, a thread that asks isValidID
\* and getEntry about it gets answers that agree with each other and with
\* the range 0 <= id < built-in count + number of user-defined descriptors.
C36_ValidityMatchesGetEntry ==
    \A t \in Threads, id \in SnippetIDs :
        reg[t].pc = "idle" => ValidityAgrees(t, id)

----------------------------------------------------------------------------
(* GrQuadUtils::ResolveAAType *)

GrAATypes == {"kNone", "kCoverage", "kMSAA"}

GrQuadAAFlagsValues == SUBSET kAllEdges

GrQuadTypes == {"kAxisAligned", "kRectilinear", "kGeneral", "kPerspective"}

\* What ResolveAAType reads of its GrQuad: quadType() and aaHasEffectOnRect().
ResolveQuads == [quadType : GrQuadTypes, aaHasEffectOnRect : BOOLEAN]

overrideEdgeFlags_Kept(requestedAAType, requestedEdgeFlags) == requestedEdgeFlags

\* The cases kNone and kMSAA of the switch: the edge flags are overridden.
overrideEdgeFlags(requestedAAType, requestedEdgeFlags) ==
    IF requestedAAType = "kNone" THEN kNoEdges ELSE kAllEdges

\* The out-parameters of ResolveAAType, translated case by case.
ResolveAAType(requestedAAType, requestedEdgeFlags, quad) ==
    IF requestedAAType = "kCoverage"
    THEN IF requestedEdgeFlags = kNoEdges
         THEN [outAAType |-> "kNone", outEdgeFlags |-> requestedEdgeFlags]
         ELSE IF quad.quadType = "kAxisAligned" /\ ~quad.aaHasEffectOnRect
              THEN [outAAType |-> "kNone", outEdgeFlags |-> kNoEdges]
              ELSE [outAAType |-> requestedAAType, outEdgeFlags |-> requestedEdgeFlags]
    ELSE [outAAType |-> requestedAAType,
          outEdgeFlags |-> overrideEdgeFlags(requestedAAType, requestedEdgeFlags)]

\* One call of ResolveAAType, on any request and any quad.
ResolveAAType_call ==
    /\ \E requestedAAType \in GrAATypes, requestedEdgeFlags \in GrQuadAAFlagsValues,
          quad \in ResolveQuads :
          aaResolved' = [requestedAAType |-> requestedAAType,
                         requestedEdgeFlags |-> requestedEdgeFlags,
                         quad |-> quad,
                         out |-> ResolveAAType(requestedAAType, requestedEdgeFlags, quad)]
    /\ UNCHANGED <<fDeviceType, fOriginal, fAAFlags, fCoverage, fInset, fOutset, tessLast>>
    /\ UNCHANGED <<cacheVars, fSpinLock, registryVars, info, codegenVars, promiseVars>>

NextResolveAA == ResolveAAType_call

SpecResolveAA == Init /\ [][NextResolveAA]_vars

\* C37: whatever the requested AA type, the requested edge flags and the quad,
\* the outputs of ResolveAAType agree with each other: an output type of kNone
\* comes with no edge flags, an output type of kMSAA with all four, an output
\* type of kCoverage with at least one; and a request of kNone or of kMSAA
\* keeps its AA type and has its edge flags overridden, to none and to all.
C37_OutputsConsistent ==
    aaResolved # NoResolve =>
        /\ aaResolved.out.outAAType = "kNone" => aaResolved.out.outEdgeFlags = kNoEdges
        /\ aaResolved.out.outAAType = "kMSAA" => aaResolved.out.outEdgeFlags = kAllEdges
        /\ aaResolved.out.outAAType = "kCoverage" => aaResolved.out.outEdgeFlags # kNoEdges
        /\ aaResolved.requestedAAType \in {"kNone", "kMSAA"} =>
              /\ aaResolved.out.outAAType = aaResolved.requestedAAType
              /\ aaResolved.out.outEdgeFlags =
                    IF aaResolved.requestedAAType = "kNone" THEN kNoEdges ELSE kAllEdges

\* An MSAA request with one edge flagged has returned with all four.
C37_Witness ==
    /\ aaResolved # NoResolve
    /\ aaResolved.requestedAAType = "kMSAA"
    /\ aaResolved.requestedEdgeFlags = {"kLeft"}
    /\ aaResolved.out.outEdgeFlags = kAllEdges

----------------------------------------------------------------------------
(* GrQuadUtils::TessellationHelper *)

(* Lengths are counted in quarters of a pixel, so that every vertex, edge
   offset and midpoint below is an integer, and a coverage in sixteenths.
   The quads are rectangles with sides parallel to the axes, whose w is 1 and
   which carry no local coordinates (fUVRCount is 0); the device type the
   helper is told may be any of the four quad types. The arithmetic is that
   of the source carried out exactly: the rounding of floats is not modelled. *)
HalfPixel == 2

Pixel == 2 * HalfPixel

\* 1.f / kTolerance
kToleranceInverse == 100

\* A coverage of 1.f.
FullCoverage == Pixel * Pixel

Lanes == 1..4

Abs(x) == IF x < 0 THEN -x ELSE x

Min(a, b) == IF a < b THEN a ELSE b

Max(a, b) == IF a < b THEN b ELSE a

\* n / d where d divides n; a division by zero is left as 0 and then always
\* replaced by correct_bad_coords.
Div(n, d) == IF d = 0 THEN 0 ELSE IF d < 0 THEN (-n) \div (-d) ELSE n \div d

Splat(x) == <<x, x, x, x>>

\* A V4f or M4f, lane by lane.
V4(lane(_)) == <<lane(1), lane(2), lane(3), lane(4)>>

\* body applied to value, with value computed once.
Once(value, body(_)) == CHOOSE result \in {body(x) : x \in {value}} : TRUE

\* skvx::shuffle<...>, with the lanes numbered from 0 as in the source.
shuffle(v, ix) == <<v[ix[1] + 1], v[ix[2] + 1], v[ix[3] + 1], v[ix[4] + 1]>>

next_cw(v) == shuffle(v, <<2, 0, 3, 1>>)

next_ccw(v) == shuffle(v, <<1, 3, 0, 2>>)

anyLane(m) == \E i \in Lanes : m[i]

allLanes(m) == \A i \in Lanes : m[i]

\* Replaces 'bad' edge vectors with the reversed opposite edge vector.
correct_bad_edges(bad, e) ==
    IF anyLane(bad)
    THEN V4(LAMBDA i : IF bad[i] THEN -shuffle(e, <<3, 2, 1, 0>>)[i] ELSE e[i])
    ELSE e

\* Replaces 'bad' coordinates with those of the next point counterclockwise.
correct_bad_coords(bad, c) ==
    IF anyLane(bad)
    THEN V4(LAMBDA i : IF bad[i] THEN next_ccw(c)[i] ELSE c[i])
    ELSE c

\* The edge vectors of the quad, normalised, their lengths (the source keeps
\* the inverses) and the mask of the edges to move, in the order L, B, T, R.
\* Every edge is parallel to an axis, so its length is |dx| + |dy|.
getMetadata(vertices, aaFlags) ==
    LET dx == V4(LAMBDA i : next_ccw(vertices.fX)[i] - vertices.fX[i])
        dy == V4(LAMBDA i : next_ccw(vertices.fY)[i] - vertices.fY[i])
        lengths == V4(LAMBDA i : Abs(dx[i]) + Abs(dy[i]))
        mask == IF aaFlags = kAllEdges
                THEN Splat(1)
                ELSE <<IF "kLeft" \in aaFlags THEN 1 ELSE 0,
                       IF "kBottom" \in aaFlags THEN 1 ELSE 0,
                       IF "kTop" \in aaFlags THEN 1 ELSE 0,
                       IF "kRight" \in aaFlags THEN 1 ELSE 0>>
    IN  [fDX |-> V4(LAMBDA i : Div(dx[i], lengths[i])),
         fDY |-> V4(LAMBDA i : Div(dy[i], lengths[i])),
         fLengths |-> lengths,
         fMask |-> mask]

\* fInvLengths >= 1.f / kTolerance, on the length.
EmptyEdge(length) == kToleranceInverse * length <= Pixel

\* The edge equations A x + B y + C = 0, normals pointing into the shape.
getEdgeEquations(metadata, vertices) ==
    LET bad == V4(LAMBDA i : EmptyEdge(metadata.fLengths[i]))
        dx == correct_bad_edges(bad, metadata.fDX)
        dy == correct_bad_edges(bad, metadata.fDY)
        c == V4(LAMBDA i : dx[i] * vertices.fY[i] - dy[i] * vertices.fX[i])
        test == V4(LAMBDA i : dy[i] * next_cw(vertices.fX)[i]
                                 - dx[i] * next_cw(vertices.fY)[i] + c[i])
    IN  IF \E i \in Lanes : kToleranceInverse * test[i] < -Pixel
        THEN [fA |-> V4(LAMBDA i : -dy[i]), fB |-> dx,
              fC |-> V4(LAMBDA i : -c[i]), fFlipped |-> TRUE]
        ELSE [fA |-> dy, fB |-> V4(LAMBDA i : -dx[i]), fC |-> c, fFlipped |-> FALSE]

\* Whether insetting and outsetting are plain vector additions, and by how
\* much each corner moves. Adjacent edges of these quads are perpendicular,
\* so where the angles are looked at cosTheta is 0 and 1/2sin(theta) is half
\* a pixel.
getOptimizedOutset(metadata, rectilinear) ==
    IF rectilinear
    THEN [ok |-> \A i \in Lanes : metadata.fLengths[i] >= Pixel, outset |-> Splat(HalfPixel)]
    ELSE IF \E i \in Lanes : EmptyEdge(metadata.fLengths[i])
         THEN [ok |-> FALSE, outset |-> Splat(HalfPixel)]
         ELSE LET cosTheta == V4(LAMBDA i :
                                  metadata.fDX[i] * next_cw(metadata.fDX)[i]
                                  + metadata.fDY[i] * next_cw(metadata.fDY)[i])
                  outset == Splat(HalfPixel)
                  halfTanTheta == V4(LAMBDA i : -cosTheta[i] * outset[i])
                  edgeAdjust == V4(LAMBDA i :
                                    metadata.fMask[i]
                                        * (halfTanTheta[i] + next_ccw(halfTanTheta)[i])
                                    + next_ccw(metadata.fMask)[i] * next_ccw(outset)[i]
                                    + next_cw(metadata.fMask)[i] * outset[i])
                  \* ten times 0.1f - 1.f / fInvLengths
                  threshold10 == V4(LAMBDA i : Pixel - 10 * metadata.fLengths[i])
              IN  IF \E i \in Lanes : 10 * Abs(cosTheta[i]) >= 9
                  THEN [ok |-> FALSE, outset |-> Splat(HalfPixel)]
                  ELSE [ok |-> /\ \A i \in Lanes : 10 * edgeAdjust[i] > threshold10[i]
                               /\ \A i \in Lanes : 10 * edgeAdjust[i] < -threshold10[i],
                        outset |-> outset]

\* Moves the corners of quad along their edge vectors: outwards for a
\* positive outset, inwards for a negative one.
outsetVertices(outset, metadata, quad) ==
    LET maskedOutset == V4(LAMBDA i : -outset[i] * next_cw(metadata.fMask)[i])
        maskedOutsetCW == V4(LAMBDA i : outset[i] * metadata.fMask[i])
    IN  [fX |-> V4(LAMBDA i : quad.fX[i]
                                 + maskedOutsetCW[i] * next_cw(metadata.fDX)[i]
                                 + maskedOutset[i] * metadata.fDX[i]),
         fY |-> V4(LAMBDA i : quad.fY[i]
                                 + maskedOutsetCW[i] * next_cw(metadata.fDY)[i]
                                 + maskedOutset[i] * metadata.fDY[i])]

\* The vectors left to right (e1) and top to bottom (e2) at each corner.
\* With w = 1 on every corner e1w and e2w are 0.
projectionEdges(quad) ==
    LET e1x0 == V4(LAMBDA i : shuffle(quad.fX, <<2, 3, 2, 3>>)[i]
                              - shuffle(quad.fX, <<0, 1, 0, 1>>)[i])
        e1y0 == V4(LAMBDA i : shuffle(quad.fY, <<2, 3, 2, 3>>)[i]
                              - shuffle(quad.fY, <<0, 1, 0, 1>>)[i])
        bad1 == V4(LAMBDA i : kToleranceInverse * kToleranceInverse
                                  * (e1x0[i] * e1x0[i] + e1y0[i] * e1y0[i])
                              < Pixel * Pixel)
        e2x0 == V4(LAMBDA i : shuffle(quad.fX, <<1, 1, 3, 3>>)[i]
                              - shuffle(quad.fX, <<0, 0, 2, 2>>)[i])
        e2y0 == V4(LAMBDA i : shuffle(quad.fY, <<1, 1, 3, 3>>)[i]
                              - shuffle(quad.fY, <<0, 0, 2, 2>>)[i])
        bad2 == V4(LAMBDA i : kToleranceInverse * kToleranceInverse
                                  * (e2x0[i] * e2x0[i] + e2y0[i] * e2y0[i])
                              < Pixel * Pixel)
    IN  [e1x |-> correct_bad_edges(bad1, e1x0), e1y |-> correct_bad_edges(bad1, e1y0),
         e2x |-> correct_bad_edges(bad2, e2x0), e2y |-> correct_bad_edges(bad2, e2y0)]

\* a and b such that the corner moved by a e1 + b e2 lies on (x2d, y2d), as
\* numerators over the common denominator of their lane; an edge that is not
\* flagged forces a or b to 0. denomUnit is what one pixel, or one square
\* pixel, is in the unit of denom.
solveForAB(e, x2d, y2d, aaFlags, quad) ==
    LET c1x == V4(LAMBDA i : -e.e1x[i])
        c1y == V4(LAMBDA i : -e.e1y[i])
        c2x == V4(LAMBDA i : -e.e2x[i])
        c2y == V4(LAMBDA i : -e.e2y[i])
        c3x == V4(LAMBDA i : x2d[i] - quad.fX[i])
        c3y == V4(LAMBDA i : y2d[i] - quad.fY[i])
        aMask == IF aaFlags = kAllEdges
                 THEN Splat(TRUE)
                 ELSE <<"kLeft" \in aaFlags, "kLeft" \in aaFlags,
                        "kRight" \in aaFlags, "kRight" \in aaFlags>>
        bMask == IF aaFlags = kAllEdges
                 THEN Splat(TRUE)
                 ELSE <<"kTop" \in aaFlags, "kBottom" \in aaFlags,
                        "kTop" \in aaFlags, "kBottom" \in aaFlags>>
        useC1x == V4(LAMBDA i : Abs(c1x[i]) > Abs(c1y[i]))
        useC2x == V4(LAMBDA i : Abs(c2x[i]) > Abs(c2y[i]))
    IN  [denom |-> V4(LAMBDA i :
                     IF aMask[i]
                     THEN IF bMask[i]
                          THEN c1x[i] * c2y[i] - c2x[i] * c1y[i]
                          ELSE IF useC1x[i] THEN c1x[i] ELSE c1y[i]
                     ELSE IF bMask[i]
                          THEN IF useC2x[i] THEN c2x[i] ELSE c2y[i]
                          ELSE 1),
         denomUnit |-> V4(LAMBDA i :
                         IF aMask[i] /\ bMask[i] THEN Pixel * Pixel
                         ELSE IF aMask[i] \/ bMask[i] THEN Pixel ELSE 1),
         aNum |-> V4(LAMBDA i :
                    IF aMask[i]
                    THEN IF bMask[i]
                         THEN c2x[i] * c3y[i] - c3x[i] * c2y[i]
                         ELSE IF useC1x[i] THEN -c3x[i] ELSE -c3y[i]
                    ELSE 0),
         bNum |-> V4(LAMBDA i :
                    IF bMask[i]
                    THEN IF aMask[i]
                         THEN c3x[i] * c1y[i] - c1x[i] * c3y[i]
                         ELSE IF useC2x[i] THEN -c3x[i] ELSE -c3y[i]
                    ELSE 0)]

\* Moves each corner of quad to (x2d, y2d) as far as the edges it may move
\* along allow; newW stays 1.
outsetProjectedVertices(x2d, y2d, aaFlags, quad) ==
    Once(projectionEdges(quad), LAMBDA e :
    Once(solveForAB(e, x2d, y2d, aaFlags, quad), LAMBDA ab :
    Once(V4(LAMBDA i : kToleranceInverse * Abs(ab.denom[i]) < ab.denomUnit[i]),
         LAMBDA badDenom :
        [fX |-> correct_bad_coords(badDenom,
                    V4(LAMBDA i : quad.fX[i] + Div(ab.aNum[i] * e.e1x[i]
                                                   + ab.bNum[i] * e.e2x[i], ab.denom[i]))),
         fY |-> correct_bad_coords(badDenom,
                    V4(LAMBDA i : quad.fY[i] + Div(ab.aNum[i] * e.e1y[i]
                                                   + ab.bNum[i] * e.e2y[i], ab.denom[i])))])))

\* The coverage of a collapsed inset at each of its points, in sixteenths.
getDegenerateCoverage(px, py, edges) ==
    LET d(k) == V4(LAMBDA i : edges.fA[k + 1] * px[i] + edges.fB[k + 1] * py[i]
                              + edges.fC[k + 1])
        w == V4(LAMBDA i : Max(0, Min(Pixel, d(0)[i] + d(3)[i])))
        h == V4(LAMBDA i : Max(0, Min(Pixel, d(1)[i] + d(2)[i])))
    IN  V4(LAMBDA i : w[i] * h[i])

\* dists < kTolerance
BelowTolerance(dist) == kToleranceInverse * dist < Pixel

\* The flagged edges moved half a pixel out or in (oc), and the four corners
\* where the moved edges meet.
movedCorners(mask, edges, outset) ==
    LET oc == V4(LAMBDA i : edges.fC[i]
                            + mask[i] * (IF outset THEN HalfPixel ELSE -HalfPixel))
        denom == V4(LAMBDA i : edges.fA[i] * next_cw(edges.fB)[i]
                               - edges.fB[i] * next_cw(edges.fA)[i])
        badDenom == V4(LAMBDA i : kToleranceInverse * Abs(denom[i]) < 1)
    IN  [oc |-> oc,
         px |-> correct_bad_coords(badDenom,
                    V4(LAMBDA i : Div(edges.fB[i] * next_cw(oc)[i]
                                      - oc[i] * next_cw(edges.fB)[i], denom[i]))),
         py |-> correct_bad_coords(badDenom,
                    V4(LAMBDA i : Div(oc[i] * next_cw(edges.fA)[i]
                                      - edges.fA[i] * next_cw(oc)[i], denom[i])))]

\* Which corners lie on the wrong side of the two moved edges that did not
\* define them: p0 against e3 and e1, p1 against e3 and e2, p2 against e0 and
\* e1, p3 against e0 and e2.
wrongSide(edges, corners) ==
    LET dists1 == V4(LAMBDA i : corners.px[i] * shuffle(edges.fA, <<3, 3, 0, 0>>)[i]
                                + corners.py[i] * shuffle(edges.fB, <<3, 3, 0, 0>>)[i]
                                + shuffle(corners.oc, <<3, 3, 0, 0>>)[i])
        dists2 == V4(LAMBDA i : corners.px[i] * shuffle(edges.fA, <<1, 2, 1, 2>>)[i]
                                + corners.py[i] * shuffle(edges.fB, <<1, 2, 1, 2>>)[i]
                                + shuffle(corners.oc, <<1, 2, 1, 2>>)[i])
    IN  [d1v0 |-> V4(LAMBDA i : BelowTolerance(dists1[i])),
         d2v0 |-> V4(LAMBDA i : BelowTolerance(dists2[i]))]

\* The corners where (e0, e3) and (e1, e2) meet, which replace the bad corners
\* of a triangle when those edges are not parallel.
triangleCorners(edges, corners, wrong) ==
    LET oc == corners.oc
        eDenom == <<edges.fA[1] * edges.fB[4] - edges.fB[1] * edges.fA[4],
                    edges.fA[2] * edges.fB[3] - edges.fB[2] * edges.fA[3]>>
        ex == <<Div(edges.fB[1] * oc[4] - oc[1] * edges.fB[4], eDenom[1]),
                Div(edges.fB[2] * oc[3] - oc[2] * edges.fB[3], eDenom[2])>>
        ey == <<Div(oc[1] * edges.fA[4] - edges.fA[1] * oc[4], eDenom[1]),
                Div(oc[2] * edges.fA[3] - edges.fA[2] * oc[3], eDenom[2])>>
        replaced(p, e) ==
            V4(LAMBDA i :
                IF kToleranceInverse * Abs(eDenom[2]) > 1 /\ wrong.d2v0[i] THEN e[2]
                ELSE IF kToleranceInverse * Abs(eDenom[1]) > 1 /\ wrong.d1v0[i] THEN e[1]
                ELSE p[i])
    IN  [px |-> replaced(corners.px, ex), py |-> replaced(corners.py, ey)]

\* The points the quad is moved to: the four corners when none is on a wrong
\* side, the center of the quad when a corner is on two wrong sides, a line
\* when every corner is on one, else a triangle.
collapsedCorners(edges, corners, wrong, quad) ==
    LET d1And2 == V4(LAMBDA i : wrong.d1v0[i] /\ wrong.d2v0[i])
        d1Or2 == V4(LAMBDA i : wrong.d1v0[i] \/ wrong.d2v0[i])
        lineAcross(p) == V4(LAMBDA i : (shuffle(p, <<0, 1, 0, 1>>)[i]
                                        + shuffle(p, <<2, 3, 2, 3>>)[i]) \div 2)
        lineAlong(p) == V4(LAMBDA i : (shuffle(p, <<0, 0, 2, 2>>)[i]
                                       + shuffle(p, <<1, 1, 3, 3>>)[i]) \div 2)
    IN  IF ~anyLane(d1Or2)
        THEN [px |-> corners.px, py |-> corners.py, degenerate |-> FALSE]
        ELSE IF anyLane(d1And2)
        THEN [px |-> Splat((quad.fX[1] + quad.fX[2] + quad.fX[3] + quad.fX[4]) \div 4),
              py |-> Splat((quad.fY[1] + quad.fY[2] + quad.fY[3] + quad.fY[4]) \div 4),
              degenerate |-> TRUE]
        ELSE IF allLanes(d1Or2)
        THEN IF wrong.d1v0[3] /\ wrong.d1v0[4]
             THEN [px |-> lineAcross(corners.px), py |-> lineAcross(corners.py),
                   degenerate |-> TRUE]
             ELSE [px |-> lineAlong(corners.px), py |-> lineAlong(corners.py),
                   degenerate |-> TRUE]
        ELSE [px |-> triangleCorners(edges, corners, wrong).px,
              py |-> triangleCorners(edges, corners, wrong).py,
              degenerate |-> FALSE]

\* Moves the flagged edges half a pixel out or in, intersects them, and
\* replaces the corners by a point or a line where the edges have crossed.
computeDegenerateQuad(aaFlags, mask, edges, outset, quad) ==
    Once(movedCorners(mask, edges, outset), LAMBDA corners :
    Once(wrongSide(edges, corners), LAMBDA wrong :
    Once(collapsedCorners(edges, corners, wrong, quad), LAMBDA p :
        [coverage |-> IF p.degenerate
                      THEN getDegenerateCoverage(p.px, p.py, edges)
                      ELSE Splat(FullCoverage),
         quad |-> outsetProjectedVertices(p.px, p.py, aaFlags, quad)])))

\* The inset and the outset of a quad for the edges of aaFlags, and the
\* coverage of the inset.
computeNestedQuadVertices(aaFlags, rectilinear, original) ==
    Once(getMetadata(original, aaFlags), LAMBDA metadata :
    Once(getOptimizedOutset(metadata, rectilinear), LAMBDA optimized :
        IF optimized.ok
        THEN [inner |-> outsetVertices(V4(LAMBDA i : -optimized.outset[i]), metadata,
                                       original),
              outer |-> outsetVertices(optimized.outset, metadata, original),
              coverage |-> Splat(FullCoverage)]
        ELSE Once(getEdgeEquations(metadata, original), LAMBDA edges :
             Once(computeDegenerateQuad(aaFlags, metadata.fMask, edges, FALSE, original),
                  LAMBDA inner :
                 [inner |-> inner.quad,
                  outer |-> computeDegenerateQuad(aaFlags, metadata.fMask, edges, TRUE,
                                                  original).quad,
                  coverage |-> inner.coverage]))))

GrQuadTypesOrdered == <<"kAxisAligned", "kRectilinear", "kGeneral", "kPerspective">>

\* fDeviceType <= GrQuad::Type::kRectilinear
AtMostRectilinear(type) == type \in {GrQuadTypesOrdered[1], GrQuadTypesOrdered[2]}

\* The sides of the device quads: half a pixel, one pixel, two pixels.
EdgeLengths == {HalfPixel, Pixel, 2 * Pixel}

\* The device quads a helper is constructed on: x4f() and y4f() in triangle
\* strip order (top left, bottom left, top right, bottom right), and quadType().
DeviceQuads ==
    {[fX |-> <<0, 0, width, width>>, fY |-> <<0, height, 0, height>>, quadType |-> type] :
        width \in EdgeLengths, height \in EdgeLengths, type \in GrQuadTypes}

\* The projected quad is the quad itself when w is 1 on every corner, and
\* moving the corners back onto the 2D inset and outset leaves w at 1.
computeNestedPerspQuadVertices(aaFlags, original) ==
    Once(computeNestedQuadVertices(aaFlags, FALSE, original), LAMBDA nested2D :
        [inner |-> outsetProjectedVertices(nested2D.inner.fX, nested2D.inner.fY, aaFlags,
                                           original),
         outer |-> outsetProjectedVertices(nested2D.outer.fX, nested2D.outer.fY, aaFlags,
                                           original),
         coverage |-> nested2D.coverage])

\* What recomputeInsetAndOutset stores in fInset, fOutset and fCoverage for
\* the flags it finds in fAAFlags, starting from the original geometry.
recomputeInsetAndOutset(original, deviceType, aaFlags) ==
    IF deviceType = "kPerspective"
    THEN computeNestedPerspQuadVertices(aaFlags, original)
    ELSE computeNestedQuadVertices(aaFlags, AtMostRectilinear(deviceType), original)

\* recomputeInsetAndOutset on every device quad and every flags value, computed
\* once: the helper's calls below look their nested quads up here.
NestedQuads ==
    {[original |-> [fX |-> deviceQuad.fX, fY |-> deviceQuad.fY],
      deviceType |-> deviceQuad.quadType,
      aaFlags |-> aaFlags,
      nested |-> recomputeInsetAndOutset([fX |-> deviceQuad.fX, fY |-> deviceQuad.fY],
                                         deviceQuad.quadType, aaFlags)] :
        deviceQuad \in DeviceQuads, aaFlags \in GrQuadAAFlagsValues}

NestedQuadsOf(original, deviceType, aaFlags) ==
    (CHOOSE entry \in NestedQuads : /\ entry.original = original
                                    /\ entry.deviceType = deviceType
                                    /\ entry.aaFlags = aaFlags).nested

\* What setQuads stores in *deviceOut: the xs and ys of the vertices and the
\* type of the device quad. Vertices that were never written give values
\* that are not defined.
setQuads(vertices) ==
    IF vertices = Uninitialized
    THEN NothingWritten
    ELSE [xs |-> vertices.fX, ys |-> vertices.fY, quadType |-> fDeviceType]

flagsDiffer_InNumber(aaFlags, current) == Cardinality(aaFlags) # Cardinality(current)

\* aaFlags != fAAFlags
flagsDiffer(aaFlags, current) == aaFlags # current

\* TessellationHelper(deviceQuad, nullptr)
TessellationHelper_construct ==
    /\ fDeviceType = "unset"
    /\ \E deviceQuad \in DeviceQuads :
          /\ fDeviceType' = deviceQuad.quadType
          /\ fOriginal' = [fX |-> deviceQuad.fX, fY |-> deviceQuad.fY]
    /\ fAAFlags' = kNoEdges
    /\ fCoverage' = Splat(FullCoverage)
    /\ tessLast' = [op |-> "TessellationHelper", aaFlags |-> kNoEdges,
                    flagsChanged |-> FALSE, wasNone |-> TRUE, recomputed |-> FALSE,
                    staleBefore |-> FALSE, deviceOut |-> NothingWritten,
                    coverage |-> NoCoverage]
    /\ UNCHANGED <<aaResolved, fInset, fOutset>>
    /\ UNCHANGED <<cacheVars, fSpinLock, registryVars, info, codegenVars, promiseVars>>

\* The part inset and outset share: the flags are stored and the nested
\* quads recomputed when the flags change to flags with an edge; then the
\* original, or the cached quad of the wanted side, is written out. The
\* nested quads of aaFlags are computed once, as nested, and used for the
\* recomputation and for the history.
insetOrOutset(op, aaFlags) ==
    /\ fDeviceType # "unset"
    /\ \E nested \in {NestedQuadsOf(fOriginal, fDeviceType, aaFlags)} :
          LET changed == flagsDiffer(aaFlags, fAAFlags)
              recompute == changed /\ aaFlags # kNoEdges
              cached == IF op = "inset" THEN fInset ELSE fOutset
              wanted == IF op = "inset" THEN nested.inner ELSE nested.outer
          IN  /\ fAAFlags' = IF changed THEN aaFlags ELSE fAAFlags
              /\ fInset' = IF recompute THEN nested.inner ELSE fInset
              /\ fOutset' = IF recompute THEN nested.outer ELSE fOutset
              /\ fCoverage' = IF recompute THEN nested.coverage ELSE fCoverage
              /\ tessLast' = [op |-> op, aaFlags |-> aaFlags,
                              flagsChanged |-> aaFlags # fAAFlags,
                              wasNone |-> fAAFlags = kNoEdges,
                              recomputed |-> recompute,
                              staleBefore |-> aaFlags # kNoEdges /\ cached # Uninitialized
                                              /\ cached # wanted,
                              deviceOut |-> setQuads(IF fAAFlags' = kNoEdges THEN fOriginal
                                                     ELSE IF op = "inset" THEN fInset'
                                                     ELSE fOutset'),
                              coverage |-> NoCoverage]
    /\ UNCHANGED <<aaResolved, fDeviceType, fOriginal>>
    /\ UNCHANGED <<cacheVars, fSpinLock, registryVars, info, codegenVars, promiseVars>>

\* TessellationHelper::inset
inset == \E aaFlags \in GrQuadAAFlagsValues : insetOrOutset("inset", aaFlags)

\* TessellationHelper::outset
outset == \E aaFlags \in GrQuadAAFlagsValues : insetOrOutset("outset", aaFlags)

\* TessellationHelper::pixelCoverage
pixelCoverage ==
    /\ fDeviceType # "unset"
    /\ tessLast' = [op |-> "pixelCoverage", aaFlags |-> fAAFlags,
                    flagsChanged |-> FALSE, wasNone |-> fAAFlags = kNoEdges,
                    recomputed |-> FALSE,
                    staleBefore |-> FALSE, deviceOut |-> NothingWritten,
                    coverage |-> IF fAAFlags = kNoEdges THEN Splat(FullCoverage)
                                 ELSE fCoverage]
    /\ UNCHANGED <<aaResolved, fDeviceType, fOriginal, fAAFlags, fCoverage, fInset, fOutset>>
    /\ UNCHANGED <<cacheVars, fSpinLock, registryVars, info, codegenVars, promiseVars>>

NextTessellation ==
    \/ TessellationHelper_construct
    \/ inset
    \/ outset
    \/ pixelCoverage

SpecTessellation == Init /\ [][NextTessellation]_vars

\* What a helper constructed on the same quad writes on its first call, made
\* with flags aaFlags: the original for no flags (lines 785 and 799), else
\* the nested quad of the wanted side computed from the original.
FreshHelperWrites(op, aaFlags) ==
    IF aaFlags = kNoEdges
    THEN [xs |-> fOriginal.fX, ys |-> fOriginal.fY, quadType |-> fDeviceType]
    ELSE LET nested == NestedQuadsOf(fOriginal, fDeviceType, aaFlags)
             vertices == IF op = "inset" THEN nested.inner ELSE nested.outer
         IN  [xs |-> vertices.fX, ys |-> vertices.fY, quadType |-> fDeviceType]

\* C38: the geometry a TessellationHelper caches is never stale. After any
\* sequence of inset and outset calls, a call with flags f writes the original
\* vertices when f is kNone, and otherwise the inset (for outset, the outset)
\* computed from the original geometry for exactly f, which is what a fresh
\* helper writes; the nested quads are recomputed whenever f differs from the
\* flags of the call before and is not kNone; while the flags are not kNone
\* the cached inset, outset and coverage are those of the flags; and
\* pixelCoverage returns 1 whenever the last flags were kNone.
C38_CachedGeometryNeverStale ==
    /\ tessLast.op \in {"inset", "outset"} =>
          /\ fAAFlags = tessLast.aaFlags
          /\ tessLast.deviceOut = FreshHelperWrites(tessLast.op, tessLast.aaFlags)
          /\ tessLast.aaFlags = kNoEdges =>
                /\ tessLast.deviceOut.xs = fOriginal.fX
                /\ tessLast.deviceOut.ys = fOriginal.fY
          /\ (tessLast.flagsChanged /\ tessLast.aaFlags # kNoEdges) => tessLast.recomputed
    /\ (fDeviceType # "unset" /\ fAAFlags # kNoEdges) =>
          LET nested == NestedQuadsOf(fOriginal, fDeviceType, fAAFlags)
          IN  /\ fInset = nested.inner
              /\ fOutset = nested.outer
              /\ fCoverage = nested.coverage
    /\ (tessLast.op = "pixelCoverage" /\ tessLast.aaFlags = kNoEdges) =>
          tessLast.coverage = Splat(FullCoverage)

\* A helper on a quad half a pixel wide went from flags with an edge to kNone
\* and on to other flags: the inset it had cached was not the one wanted, it
\* was recomputed, and what was written differs from the original.
C38_Witness ==
    /\ tessLast.op = "inset"
    /\ tessLast.aaFlags = {"kTop"}
    /\ tessLast.wasNone
    /\ tessLast.staleBefore
    /\ tessLast.recomputed
    /\ fOriginal.fX = <<0, 0, HalfPixel, HalfPixel>>
    /\ tessLast.deviceOut.ys # fOriginal.fY
    /\ tessLast.deviceOut = FreshHelperWrites("inset", {"kTop"})

====
